---- MODULE Spec2Model ----
(***************************************************************************)
(* Delivery pipeline of the Reddit-to-Discord bot                          *)
(* (Slash Command Bot Sample Config Files/reddit_discord_bot.py).          *)
(*                                                                         *)
(* One feed (subreddit) is mirrored to one destination through one         *)
(* subscription row, which lives in one of the three subscription tables.  *)
(* Two background tasks sweep the row: check_new_posts ("new") and         *)
(* consistency_check ("consistency").  Both are coroutines on one event    *)
(* loop, so every action below is one run of a task between two            *)
(* suspension points (awaits that reach the network).                      *)
(*                                                                         *)
(* Time is the instant of the clock read by datetime.now(); a post is      *)
(* stamped with the instant of its creation and every creation is a later  *)
(* instant than anything before it.  The destination channel (and thread)  *)
(* of the row resolves, and the bot's clock agrees with created_utc.       *)
(* last_check is kept as the instant its stored text parses to: both       *)
(* formats written (strftime with microseconds, isoformat) are read back   *)
(* by datetime.fromisoformat to the instant that was written.              *)
(***************************************************************************)
EXTENDS Integers, Sequences, FiniteSets, TLC

\* ---------------------------------------------------------------- bounds
MaxPosts == 2      \* posts that arrive in the feed during a run
MaxMalformed == 1  \* posts among them that no attempt can render
MaxRestarts == 1   \* process restarts during a run
CountCap == 2      \* the delivery counter of a post saturates here
MaxLen == 3        \* posts of a listing handed to one call of fetch_new_submissions
MaxTime == 3       \* latest instant of such a listing
MaxCommands == 4   \* subscription commands issued during a run
MaxImages == 2     \* images of a post whose fetches may each go any way
MaxGallery == 22   \* images of a gallery of which at most MaxFailed are not sent
MaxFailed == 1
MaxTitle == 300       \* the longest title handed to truncate_string
MaxCreating == 2      \* subscribe_forum_create commands in flight at a time
MaxDays == 3          \* a poll ends at most this many days and a day after the render

\* ------------------------------------------------------- program constants
Limit == 10        \* fetch_new_submissions(..., limit=10)
max_tries == 3     \* backoff.on_exception(..., max_tries=3)
BatchSize == 10    \* for i in range(0, len(image_urls), 10)
SampleLimit == 10  \* subreddit.new(limit=10) in the sample bot with slash commands
PlainLimit == 5    \* subreddit.new(limit=5) in the sample bot without slash commands
TitleLimit == 256       \* truncate_string(processing_submission.title, 256)
ThreadNameLimit == 100  \* truncate_string(submission.title, 100)

Sweeps == {"new", "consistency"}
Tables == {"subscriptions", "forum_subscriptions", "individual_forum_subscriptions"}
channel_id == 1    \* the destination of the subscription row
None == 0          \* NULL last_submission_id; post ids are 1, 2, ...

\* the check_new_posts tasks: on_ready creates one, and one more when it fires again
Loops == {"new", "reconnect"}
Tasks == Sweeps \cup Loops

\* the answers of the feed's server to subreddit.new(): the listing, an HTTP error
\* raised by asyncprawcore, or any other exception raised inside the loop
Retried == {"ServerError", "RequestException"}
Swallowed == {"Forbidden", "NotFound"}
Responses == {"ok", "TooManyRequests", "Exception"} \cup Retried \cup Swallowed
\* the errors that pass: rate limit, server error, timeout
Transient == {"TooManyRequests"} \cup Retried

VARIABLES
    now,                    \* datetime.now(timezone.utc)
    feed,                   \* the subreddit's posts, oldest first; the id of a post is its index
    sub,                    \* the subscription row: table, last_check, last_submission_id
    processed_submissions,  \* the dedup cache: dict channel_id -> set of post ids
    pc,                     \* per sweep: "idle", "fetching" or "rendering"
    last_check,             \* per sweep: last_check of the row as read by its SELECT
    new_submissions,        \* per sweep: the fetched batch, newest first
    pos,                    \* per sweep: index in reversed(new_submissions) of the post being rendered
    processed_ids,          \* per sweep: ids this call of process_subscription handed on
    handed,                 \* per post: the sweeps that called process_submission for it
    delivered,              \* per post: calls of process_submission that sent it (saturating)
    restarts,               \* process restarts so far
    source,                 \* what the feed's server answers a listing request with
    tries,                  \* per task: attempts made by its call of fetch_new_submissions
    subscribed,             \* the subscription row is in its table
    fetch_limit,            \* the limit argument of a call of fetch_new_submissions
    rows,                   \* the three subscription tables: their rows in rowid order
    todo,                   \* the rows fetched by the SELECT of the loop a forum sweep is in
    phase,                  \* the loop of check_new_posts a forum sweep is in
    sent,                   \* the pairs <<destination, post>> process_submission was called for
    channels,               \* the ids for which bot.get_channel returns a channel or thread
    deleted,                \* the ids of the channels and threads that were deleted
    reply,                  \* what the last command answered with interaction.followup.send
    submission,             \* the post given to a call of process_submission
    button_visibility,      \* the labels of the buttons that are visible
    messages,               \* the send units of that call, in the order they were sent
    rendered,               \* how far that call is: "pending", "done" or "load failed"
    title,                  \* the string given to truncate_string: a sequence of characters
    clip,                   \* the caller of truncate_string: "none", "title" or "thread name"
    clipped,                \* what truncate_string returned
    voting_end_timestamp,   \* poll_data.voting_end_timestamp, in seconds or milliseconds
    current_time,           \* datetime.now(timezone.utc) in process_reddit_poll
    poll_time,              \* the field process_reddit_poll adds for the end of the poll
    creating,               \* subscribe_forum_create commands between their check and their INSERT
    new_last_check,         \* sample bot: the time its sweep will write as last_check
    new_last_submission_id  \* sample bot: the id its sweep will write as last_submission_id

\* the state of the store and of the forum sweep
store_vars == <<rows, todo, phase, sent, channels, deleted, reply>>

\* the state of one call of process_submission
render_vars == <<submission, button_visibility, messages, rendered>>

\* the state of one call of a pure function
truncate_vars == <<title, clip, clipped>>
poll_vars == <<voting_end_timestamp, current_time, poll_time>>
pure_vars == <<truncate_vars, poll_vars>>

\* the commands that are suspended at an await
command_vars == <<creating>>

\* the locals of check_new_posts in the sample bots
sample_vars == <<new_last_check, new_last_submission_id>>

ext == <<store_vars, render_vars, pure_vars, command_vars, sample_vars>>

vars == <<now, feed, sub, processed_submissions, pc, last_check, new_submissions,
          pos, processed_ids, handed, delivered, restarts, source, tries, subscribed,
          fetch_limit, ext>>

\* ---------------------------------------------------------------- helpers
Min(a, b) == IF a <= b THEN a ELSE b

SetMax(S) == CHOOSE x \in S : \A y \in S : y <= x

\* mutant: the batch is iterated as fetched, newest first
ReverseMut(q) == q

Reverse(q) == [i \in 1..Len(q) |-> q[Len(q) + 1 - i]]

Bump(count, p) == [count EXCEPT ![p] = Min(@ + 1, CountCap)]

Malformed(f) == {p \in 1..Len(f) : f[p].malformed}

EmptyDict == [ch \in {} |-> {}]

DictSet(d, k, v) == [ch \in (DOMAIN d) \cup {k} |-> IF ch = k THEN v ELSE d[ch]]

\* subreddit.new(limit=limit): the newest `limit` posts, newest first
Listing(f, limit) == [i \in 1..Min(limit, Len(f)) |-> Len(f) + 1 - i]

\* the loop of fetch_new_submissions: append until the first post at or before last_check
RECURSIVE TakeNewer(_, _, _)

\* mutant: the loop stops only at a post strictly older than last_check
RECURSIVE TakeNewerMut(_, _, _)
TakeNewerMut(f, listing, since) ==
    IF listing = <<>> \/ f[Head(listing)].created < since
    THEN <<>>
    ELSE <<Head(listing)>> \o TakeNewerMut(f, Tail(listing), since)

\* mutant: a post at or before last_check is passed over and the loop goes on
RECURSIVE TakeNewerAll(_, _, _)
TakeNewerAll(f, listing, since) ==
    IF listing = <<>> THEN <<>>
    ELSE IF f[Head(listing)].created <= since THEN TakeNewerAll(f, Tail(listing), since)
    ELSE <<Head(listing)>> \o TakeNewerAll(f, Tail(listing), since)

TakeNewer(f, listing, since) ==
    IF listing = <<>> \/ f[Head(listing)].created <= since
    THEN <<>>
    ELSE <<Head(listing)>> \o TakeNewer(f, Tail(listing), since)

fetch_new_submissions(f, since, limit) == TakeNewer(f, Listing(f, limit), since)

\* mutant: every error answer leaves the function body as a retried error
AttemptMut(f, since, limit, response, k) ==
    IF response = "ok"
    THEN [raises |-> "none", returns |-> fetch_new_submissions(f, since, limit)]
    ELSE [raises |-> "ServerError", returns |-> <<>>]

\* one run of the body of fetch_new_submissions: Forbidden and NotFound are logged
\* and the list is returned; TooManyRequests, ServerError and RequestException are
\* raised again; any other exception, raised after k posts were appended, is
\* logged and the list is returned as far as it got
Attempt(f, since, limit, response, k) ==
    LET listed == fetch_new_submissions(f, since, limit)
    IN  IF response = "ok" THEN [raises |-> "none", returns |-> listed]
        ELSE IF response \in Swallowed THEN [raises |-> "none", returns |-> <<>>]
        ELSE IF response = "Exception"
        THEN [raises |-> "none", returns |-> SubSeq(listed, 1, Min(k, Len(listed)))]
        ELSE [raises |-> response, returns |-> <<>>]

\* mutant: the call is given one more try
RetryMut(e, n) == e \in Retried /\ n < max_tries + 1

\* backoff.on_exception after the n-th try raised e: call again, or give up and raise
Retry(e, n) == e \in Retried /\ n < max_tries

\* the for loop up to its next await: posts already in the dedup set are skipped
RECURSIVE NextUnprocessed(_, _, _)
NextUnprocessed(rev, i, seen) ==
    IF i > Len(rev) THEN i
    ELSE IF rev[i] \in seen THEN NextUnprocessed(rev, i + 1, seen)
    ELSE i

\* ------------------------------------------------------------ the row
\* UPDATE ... SET last_check = now, last_submission_id = new_submissions[0].id,
\* followed (regular subscriptions) by the caller's UPDATE of last_submission_id
\* mutant: last_check is set to the creation time of the newest fetched post
CursorWriteMut(row, batch, pids) ==
    [row EXCEPT !.last_check = feed[batch[1]].created]

CursorWrite(row, batch, pids) ==
    [row EXCEPT
        !.last_check = now,
        !.last_submission_id =
            IF row.table = "subscriptions"
            THEN (IF pids # {} THEN SetMax(pids) ELSE batch[1])
            ELSE IF row.table = "forum_subscriptions" THEN batch[1]
            ELSE @]

\* the caller's UPDATE of last_submission_id after process_subscription returned
CallerUpdate(row, pids) ==
    IF row.table = "subscriptions" /\ pids # {}
    THEN [row EXCEPT !.last_submission_id = SetMax(pids)]
    ELSE row

\* an UPDATE ... WHERE subreddit = ? AND channel_id = ? changes the row when it is there
Stored(row) == IF subscribed THEN row ELSE sub

\* ------------------------------------------------------------ the sweeps
Return(s) ==
    /\ pc' = [pc EXCEPT ![s] = "idle"]
    /\ last_check' = [last_check EXCEPT ![s] = 0]
    /\ new_submissions' = [new_submissions EXCEPT ![s] = <<>>]
    /\ pos' = [pos EXCEPT ![s] = 0]
    /\ processed_ids' = [processed_ids EXCEPT ![s] = {}]

\* mutant: the cursor is written on the way out of the except clause too
AbortMut(s, pids) ==
    /\ sub' = Stored([CallerUpdate(sub, pids) EXCEPT !.last_check = now])
    /\ Return(s)

\* the except clause of process_*_subscription: the batch is abandoned
Abort(s, pids) ==
    /\ sub' = Stored(CallerUpdate(sub, pids))
    /\ Return(s)

\* mutant: the batch ends without the UPDATE of the row
FinishMut(s, batch, pids) ==
    /\ sub' = sub
    /\ Return(s)

\* the end of process_*_subscription: the cursor is written when the batch was not empty
Finish(s, batch, pids) ==
    /\ sub' = IF batch # <<>> THEN Stored(CursorWrite(sub, batch, pids)) ELSE sub
    /\ Return(s)

\* mutant: the id of the post is not added before process_submission is awaited
DeliveryLoopMut(s, batch, i, cache, pids) ==
    LET rev == Reverse(batch)
        j == NextUnprocessed(rev, i, cache[channel_id])
    IN  IF j <= Len(rev)
        THEN /\ processed_submissions' = cache
             /\ processed_ids' = [processed_ids EXCEPT ![s] = pids \cup {rev[j]}]
             /\ new_submissions' = [new_submissions EXCEPT ![s] = batch]
             /\ pos' = [pos EXCEPT ![s] = j]
             /\ pc' = [pc EXCEPT ![s] = "rendering"]
             /\ handed' = [handed EXCEPT ![rev[j]] = @ \cup {s}]
             /\ UNCHANGED <<sub, last_check>>
        ELSE /\ processed_submissions' = cache
             /\ Finish(s, batch, pids)
             /\ UNCHANGED handed

\* the for loop from iteration i on, with the dedup dict as it is now
DeliveryLoop(s, batch, i, cache, pids) ==
    LET rev == Reverse(batch)
        j == NextUnprocessed(rev, i, cache[channel_id])
    IN  IF j <= Len(rev)
        THEN /\ processed_submissions' =
                    DictSet(cache, channel_id, cache[channel_id] \cup {rev[j]})
             /\ processed_ids' = [processed_ids EXCEPT ![s] = pids \cup {rev[j]}]
             /\ new_submissions' = [new_submissions EXCEPT ![s] = batch]
             /\ pos' = [pos EXCEPT ![s] = j]
             /\ pc' = [pc EXCEPT ![s] = "rendering"]
             /\ handed' = [handed EXCEPT ![rev[j]] = @ \cup {s}]
             /\ UNCHANGED <<sub, last_check>>
        ELSE /\ processed_submissions' = cache
             /\ Finish(s, batch, pids)
             /\ UNCHANGED handed

\* the SELECT of the row's table and the call of process_*_subscription for the
\* row; a table without the row leaves the sweep nothing to do
Select(s) ==
    /\ IF subscribed
       THEN /\ last_check' = [last_check EXCEPT ![s] = sub.last_check]
            /\ pc' = [pc EXCEPT ![s] = "fetching"]
       ELSE /\ pc' = [pc EXCEPT ![s] = "idle"]
            /\ UNCHANGED last_check
    /\ tries' = [tries EXCEPT ![s] = 0]

\* one turn of the `while True` loop of a check_new_posts task: clear the dedup
\* cache, SELECT the rows, call process_*_subscription
check_new_posts_task(t) ==
    /\ pc[t] = "idle"
    /\ processed_submissions' = EmptyDict
    /\ Select(t)
    /\ UNCHANGED <<now, feed, sub, new_submissions, pos, processed_ids, handed,
                   delivered, restarts, source, subscribed, fetch_limit, ext>>

\* the check_new_posts task created by the first on_ready
check_new_posts == check_new_posts_task("new")

\* consistency_check: SELECT the rows, call process_*_subscription
consistency_check ==
    /\ pc["consistency"] = "idle"
    /\ Select("consistency")
    /\ UNCHANGED <<now, feed, sub, processed_submissions, new_submissions, pos,
                   processed_ids, handed, delivered, restarts, source, subscribed,
                   fetch_limit, ext>>

\* the SELECT of the subscriptions table returns another subscription ahead of
\* the row, and the sweep turns to that one first; the row has been read with it
\* when it is a regular subscription, the forum tables are read later
SelectBehind(s) ==
    /\ pc' = [pc EXCEPT ![s] = "earlier"]
    /\ last_check' = [last_check EXCEPT ![s] =
                         IF sub.table = "subscriptions" THEN sub.last_check ELSE @]
    /\ tries' = [tries EXCEPT ![s] = 0]

\* check_new_posts with another regular subscription ahead of the row
check_new_posts_behind ==
    /\ pc["new"] = "idle"
    /\ subscribed
    /\ processed_submissions' = EmptyDict
    /\ SelectBehind("new")
    /\ UNCHANGED <<now, feed, sub, new_submissions, pos, processed_ids, handed,
                   delivered, restarts, source, subscribed, fetch_limit, ext>>

\* consistency_check with another regular subscription ahead of the row
consistency_check_behind ==
    /\ pc["consistency"] = "idle"
    /\ subscribed
    /\ SelectBehind("consistency")
    /\ UNCHANGED <<now, feed, sub, processed_submissions, new_submissions, pos,
                   processed_ids, handed, delivered, restarts, source, subscribed,
                   fetch_limit, ext>>

\* the sweep goes on from the other subscription to the row
Proceed(s) ==
    IF sub.table = "subscriptions"
    THEN /\ pc' = [pc EXCEPT ![s] = "fetching"]
         /\ UNCHANGED <<last_check, tries>>
    ELSE Select(s)

\* process_subscription and the caller's UPDATE for the other subscription are done
OtherRowDone(s) ==
    /\ pc[s] = "earlier"
    /\ Proceed(s)
    /\ UNCHANGED <<now, feed, sub, processed_submissions, new_submissions, pos,
                   processed_ids, handed, delivered, restarts, source, subscribed,
                   fetch_limit, ext>>

\* the caller's UPDATE of last_submission_id for the other subscription raises
\* (sqlite3.Error): consistency_check catches it in the try around the row and
\* goes on; in check_new_posts it lands in the except clause around the three
\* loops, and the task goes to sleep
OtherRowRaises(s) ==
    /\ pc[s] = "earlier"
    /\ IF s = "consistency"
       THEN Proceed(s)
       ELSE /\ pc' = [pc EXCEPT ![s] = "idle"]
            /\ last_check' = [last_check EXCEPT ![s] = 0]
            /\ UNCHANGED tries
    /\ UNCHANGED <<now, feed, sub, processed_submissions, new_submissions, pos,
                   processed_ids, handed, delivered, restarts, source, subscribed,
                   fetch_limit, ext>>

\* the fetch answers: the batch is taken and the loop runs to its first await
FetchReturns(s) ==
    /\ pc[s] = "fetching"
    /\ LET batch == fetch_new_submissions(feed, last_check[s], Limit)
           cache == IF channel_id \in DOMAIN processed_submissions
                    THEN processed_submissions
                    ELSE DictSet(processed_submissions, channel_id, {})
       IN  DeliveryLoop(s, batch, 1, cache, {})
    /\ UNCHANGED <<now, feed, delivered, restarts,
                   source, tries, subscribed, fetch_limit, ext>>

\* the server answers an attempt of the sweep's call of fetch_new_submissions:
\* backoff calls again after a retried error; an exception that leaves the call
\* lands in the except clause of process_*_subscription; a returned list is
\* taken as the batch and the loop runs to its first await
FetchAttempt(s) ==
    /\ pc[s] = "fetching"
    /\ \E k \in 0..Len(fetch_new_submissions(feed, last_check[s], Limit)) :
          LET r == Attempt(feed, last_check[s], Limit, source, k)
              n == tries[s] + 1
              cache == IF channel_id \in DOMAIN processed_submissions
                       THEN processed_submissions
                       ELSE DictSet(processed_submissions, channel_id, {})
          IN  /\ tries' = [tries EXCEPT ![s] = n]
              /\ IF Retry(r.raises, n)
                 THEN UNCHANGED <<sub, processed_submissions, pc, last_check,
                                  new_submissions, pos, processed_ids, handed>>
                 ELSE IF r.raises # "none"
                 THEN /\ Abort(s, {})
                      /\ UNCHANGED <<processed_submissions, handed>>
                 ELSE DeliveryLoop(s, r.returns, 1, cache, {})
    /\ UNCHANGED <<now, feed, delivered, restarts, source, subscribed, fetch_limit, ext>>

\* the fetch raises (retries exhausted): except clause, nothing is written
FetchFails(s) ==
    /\ pc[s] = "fetching"
    /\ Abort(s, {})
    /\ UNCHANGED <<now, feed, processed_submissions, handed, delivered, restarts,
                   source, tries, subscribed, fetch_limit, ext>>

\* after process_submission came back: the loop ends, or its next iteration looks
\* the channel up in the dedup dict, which raises KeyError when a new-posts sweep
\* cleared the dict meanwhile
NextIteration(s) ==
    IF pos[s] = Len(new_submissions[s])
    THEN /\ Finish(s, new_submissions[s], processed_ids[s])
         /\ UNCHANGED <<processed_submissions, handed>>
    ELSE IF channel_id \notin DOMAIN processed_submissions
    THEN /\ Abort(s, processed_ids[s])
         /\ UNCHANGED <<processed_submissions, handed>>
    ELSE DeliveryLoop(s, new_submissions[s], pos[s] + 1, processed_submissions,
                      processed_ids[s])

Current(s) == Reverse(new_submissions[s])[pos[s]]

\* process_submission sent the post and returned
RenderDone(s) ==
    /\ pc[s] = "rendering"
    /\ ~feed[Current(s)].malformed
    /\ delivered' = Bump(delivered, Current(s))
    /\ NextIteration(s)
    /\ UNCHANGED <<now, feed, restarts,
                   source, tries, subscribed, fetch_limit, ext>>

\* submission.load() raised RequestException: process_submission logs and returns
LoadFails(s) ==
    /\ pc[s] = "rendering"
    /\ NextIteration(s)
    /\ UNCHANGED <<now, feed, delivered, restarts,
                   source, tries, subscribed, fetch_limit, ext>>

\* process_submission raised: the except clause of process_*_subscription
RenderRaises(s) ==
    /\ pc[s] = "rendering"
    /\ Abort(s, processed_ids[s])
    /\ UNCHANGED <<now, feed, processed_submissions, handed, delivered, restarts,
                   source, tries, subscribed, fetch_limit, ext>>

\* on_ready fires again after a reconnect: create_task(check_new_posts()) makes one
\* more task; cleanup_subscriptions.start() then raises RuntimeError (the loop is
\* running), which on_ready catches, so no second consistency_check is started
on_ready ==
    /\ pc["reconnect"] = "none"
    /\ pc' = [pc EXCEPT !["reconnect"] = "idle"]
    /\ UNCHANGED <<now, feed, sub, processed_submissions, last_check, new_submissions,
                   pos, processed_ids, handed, delivered, restarts, source, tries,
                   subscribed, fetch_limit, ext>>

\* a caller awaits fetch_new_submissions(subreddit, last_check, limit): the body
\* runs, backoff calls it again after a retried error, and the caller gets the
\* list or the exception
FetchCall ==
    /\ pc["new"] = "fetching"
    /\ \E k \in 0..Len(feed) :
          LET r == Attempt(feed, last_check["new"], fetch_limit, source, k)
              n == tries["new"] + 1
          IN  /\ tries' = [tries EXCEPT !["new"] = n]
              /\ IF Retry(r.raises, n)
                 THEN UNCHANGED <<pc, new_submissions>>
                 ELSE /\ pc' = [pc EXCEPT !["new"] =
                                   IF r.raises = "none" THEN "returned" ELSE "raised"]
                      /\ new_submissions' = [new_submissions EXCEPT !["new"] = r.returns]
    /\ UNCHANGED <<now, feed, sub, processed_submissions, last_check, pos, processed_ids,
                   handed, delivered, restarts, source, subscribed, fetch_limit, ext>>

\* ------------------------------------------------------- the environment
NewPost ==
    /\ Len(feed) < MaxPosts
    /\ now' = now + 1
    /\ \E m \in BOOLEAN :
          /\ m => Cardinality(Malformed(feed)) < MaxMalformed
          /\ feed' = Append(feed, [created |-> now', malformed |-> m])
    /\ handed' = Append(handed, {})
    /\ delivered' = Append(delivered, 0)
    /\ UNCHANGED <<sub, processed_submissions, pc, last_check, new_submissions, pos,
                   processed_ids, restarts,
                   source, tries, subscribed, fetch_limit, ext>>

\* the feed's server starts to answer differently: the subreddit goes private or
\* is banned or deleted, the rate limit is hit, the service fails or recovers
SourceChanges ==
    /\ \E response \in Responses \ {source} : source' = response
    /\ UNCHANGED <<now, feed, sub, processed_submissions, pc, last_check, new_submissions,
                   pos, processed_ids, handed, delivered, restarts, tries, subscribed,
                   fetch_limit, ext>>

\* /unsubscribe, /unsubscribe_forum, /unsubscribe_forum_individual: DELETE the row
unsubscribe ==
    /\ subscribed
    /\ subscribed' = FALSE
    /\ UNCHANGED <<now, feed, sub, processed_submissions, pc, last_check, new_submissions,
                   pos, processed_ids, handed, delivered, restarts, source, tries,
                   fetch_limit, ext>>

\* the tasks after the first on_ready: one check_new_posts task and the
\* consistency_check loop, both about to start a sweep
Launched == [t \in Tasks |-> IF t \in Sweeps THEN "idle" ELSE "none"]

\* the process stops and is started again: the database stays, the memory is lost
Restart ==
    /\ restarts < MaxRestarts
    /\ restarts' = restarts + 1
    /\ processed_submissions' = EmptyDict
    /\ pc' = Launched
    /\ last_check' = [t \in Tasks |-> 0]
    /\ new_submissions' = [t \in Tasks |-> <<>>]
    /\ pos' = [t \in Tasks |-> 0]
    /\ processed_ids' = [t \in Tasks |-> {}]
    /\ tries' = [t \in Tasks |-> 0]
    /\ UNCHANGED <<now, feed, sub, handed, delivered, source, subscribed, fetch_limit, ext>>

\* no call of process_submission is followed
RenderInit ==
    /\ submission = "none"
    /\ button_visibility = {}
    /\ messages = <<>>
    /\ rendered = "none"

\* an integer that takes more than 32 bits: hi * 1000 + lo, with lo in 0..999
Wide(hi, lo) == [hi |-> hi, lo |-> lo]

\* an instant: whole seconds since the epoch and the milliseconds after them
Instant(seconds, millis) == [seconds |-> seconds, millis |-> millis]

\* the field of the embed about the end of the poll; "none" when it is left out
TimeField(name, days, hours, minutes) ==
    [name |-> name, days |-> days, hours |-> hours, minutes |-> minutes]

TruncateInit ==
    /\ title = <<>>
    /\ clip = "none"
    /\ clipped = <<>>

PollInit ==
    /\ voting_end_timestamp = Wide(0, 0)
    /\ current_time = Instant(0, 0)
    /\ poll_time = TimeField("none", 0, 0, 0)

\* no command is suspended
CommandInit == creating = 0

\* no sweep of a sample bot is under way
SampleInit ==
    /\ new_last_check = 0
    /\ new_last_submission_id = None

PureInit ==
    /\ TruncateInit
    /\ PollInit

\* one subscription row is followed: the store and the forum sweep are left out
ExtInit ==
    /\ PureInit
    /\ CommandInit
    /\ SampleInit
    /\ rows = <<>>
    /\ todo = <<>>
    /\ phase = "idle"
    /\ sent = {}
    /\ channels = {}
    /\ deleted = {}
    /\ reply = "none"
    /\ RenderInit

\* ------------------------------------------------------ specification
Init ==
    /\ now = 0
    /\ feed = <<>>
    /\ \E t \in Tables : sub = [table |-> t, last_check |-> 0, last_submission_id |-> None]
    /\ processed_submissions = EmptyDict
    /\ pc = Launched
    /\ last_check = [t \in Tasks |-> 0]
    /\ new_submissions = [t \in Tasks |-> <<>>]
    /\ pos = [t \in Tasks |-> 0]
    /\ processed_ids = [t \in Tasks |-> {}]
    /\ source = "ok"
    /\ tries = [t \in Tasks |-> 0]
    /\ subscribed = TRUE
    /\ fetch_limit = Limit
    /\ ExtInit
    /\ handed = <<>>
    /\ delivered = <<>>
    /\ restarts = 0

Next ==
    \/ check_new_posts
    \/ consistency_check
    \/ \E s \in Sweeps : FetchReturns(s)
    \/ \E s \in Sweeps : FetchFails(s)
    \/ \E s \in Sweeps : RenderDone(s)
    \/ \E s \in Sweeps : LoadFails(s)
    \/ \E s \in Sweeps : RenderRaises(s)
    \/ NewPost
    \/ Restart

Spec == Init /\ [][Next]_vars

\* A subscription whose feed received Limit + 1 posts before the first sweep
\* (a busy subreddit, or the bot was down): none of them is malformed.
InitBacklog ==
    /\ now = Limit + 1
    /\ feed = [p \in 1..(Limit + 1) |-> [created |-> p, malformed |-> FALSE]]
    /\ \E t \in Tables : sub = [table |-> t, last_check |-> 0, last_submission_id |-> None]
    /\ processed_submissions = EmptyDict
    /\ pc = Launched
    /\ last_check = [t \in Tasks |-> 0]
    /\ new_submissions = [t \in Tasks |-> <<>>]
    /\ pos = [t \in Tasks |-> 0]
    /\ processed_ids = [t \in Tasks |-> {}]
    /\ source = "ok"
    /\ tries = [t \in Tasks |-> 0]
    /\ subscribed = TRUE
    /\ fetch_limit = Limit
    /\ ExtInit
    /\ handed = [p \in 1..(Limit + 1) |-> {}]
    /\ delivered = [p \in 1..(Limit + 1) |-> 0]
    /\ restarts = 0

\* Runs in which the two sweeps never overlap and nothing fails.
NextSeq ==
    \/ pc["consistency"] = "idle" /\ check_new_posts
    \/ pc["new"] = "idle" /\ consistency_check
    \/ \E s \in Sweeps : FetchReturns(s)
    \/ \E s \in Sweeps : RenderDone(s)
    \/ NewPost /\ Malformed(feed') = {}

SpecSeq == (Init \/ InitBacklog) /\ [][NextSeq]_vars

\* Runs in which the two sweeps interleave freely and nothing fails.
NextOverlap ==
    \/ check_new_posts
    \/ consistency_check
    \/ \E s \in Sweeps : FetchReturns(s)
    \/ \E s \in Sweeps : RenderDone(s)
    \/ NewPost /\ Malformed(feed') = {}

SpecOverlap == Init /\ [][NextOverlap]_vars

\* The sweeps over a backlog of Limit + 1 posts, with no further post arriving.
NextBacklog ==
    \/ check_new_posts
    \/ consistency_check
    \/ \E s \in Sweeps : FetchReturns(s)
    \/ \E s \in Sweeps : RenderDone(s)

SpecBacklog == InitBacklog /\ [][NextBacklog]_vars

\* The new-posts sweep alone, with failing fetches and renders, without restart.
NextSolo ==
    \/ check_new_posts
    \/ FetchReturns("new")
    \/ FetchFails("new")
    \/ RenderDone("new")
    \/ LoadFails("new")
    \/ RenderRaises("new")
    \/ NewPost

SpecSolo == Init /\ [][NextSolo]_vars

\* The new-posts sweep alone under the scheduling of its `while True` loop: a sweep
\* starts again after every sleep, a fetch is answered, and a post that can be
\* rendered is not refused for ever.
NextSoloFair ==
    \/ check_new_posts
    \/ FetchReturns("new")
    \/ RenderDone("new")
    \/ RenderRaises("new")
    \/ NewPost

SpecSoloFair ==
    /\ Init
    /\ [][NextSoloFair]_vars
    /\ WF_vars(check_new_posts)
    /\ WF_vars(FetchReturns("new"))
    /\ SF_vars(RenderDone("new"))
    /\ WF_vars(RenderRaises("new") /\ feed[Current("new")].malformed)

\* Runs in which the two sweeps never overlap, nothing fails, and the process may
\* stop at any point and be started again.
NextCrash ==
    \/ pc["consistency"] = "idle" /\ check_new_posts
    \/ pc["new"] = "idle" /\ consistency_check
    \/ \E s \in Sweeps : FetchReturns(s)
    \/ \E s \in Sweeps : RenderDone(s)
    \/ NewPost /\ Malformed(feed') = {}
    \/ Restart

SpecCrash == Init /\ [][NextCrash]_vars

\* The check_new_posts tasks alone, with on_ready firing a second time; nothing fails.
NextReady ==
    \/ on_ready
    \/ \E t \in Loops : check_new_posts_task(t)
    \/ \E t \in Loops : FetchReturns(t)
    \/ \E t \in Loops : RenderDone(t)
    \/ NewPost /\ Malformed(feed') = {}

SpecReady == Init /\ [][NextReady]_vars

\* One call of fetch_new_submissions on any listing of up to MaxLen posts, created
\* at any instants up to MaxTime, with any last_check, limit and answer of the server.
InitFetch ==
    /\ now = MaxTime
    /\ \E n \in 0..MaxLen : \E created \in [1..n -> 1..MaxTime] :
          /\ feed = [p \in 1..n |-> [created |-> created[p], malformed |-> FALSE]]
          /\ handed = [p \in 1..n |-> {}]
          /\ delivered = [p \in 1..n |-> 0]
    /\ \E t \in Tables : sub = [table |-> t, last_check |-> 0, last_submission_id |-> None]
    /\ processed_submissions = EmptyDict
    /\ pc = [Launched EXCEPT !["new"] = "fetching"]
    /\ \E since \in 0..MaxTime : last_check = [t \in Tasks |-> IF t = "new" THEN since ELSE 0]
    /\ new_submissions = [t \in Tasks |-> <<>>]
    /\ pos = [t \in Tasks |-> 0]
    /\ processed_ids = [t \in Tasks |-> {}]
    /\ source \in Responses
    /\ tries = [t \in Tasks |-> 0]
    /\ subscribed = TRUE
    /\ fetch_limit \in 1..MaxLen
    /\ ExtInit
    /\ restarts = 0

NextFetch == FetchCall

SpecFetch == InitFetch /\ [][NextFetch]_vars

\* The two sweeps, never overlapping, over a feed whose server answers with the
\* listing or with any error; every post can be rendered; the row may be removed.
NextSource ==
    \/ pc["consistency"] = "idle" /\ check_new_posts
    \/ pc["new"] = "idle" /\ consistency_check
    \/ \E s \in Sweeps : FetchAttempt(s)
    \/ \E s \in Sweeps : RenderDone(s)
    \/ NewPost /\ Malformed(feed') = {}
    \/ SourceChanges
    \/ unsubscribe

SpecSource == Init /\ [][NextSource]_vars

\* The two sweeps, never overlapping, over a table that holds another regular
\* subscription ahead of the row; fetches, renders and store updates may raise.
\* A sweep starts again after every sleep and every await comes back.
NextRows ==
    \/ pc["consistency"] = "idle" /\ check_new_posts_behind
    \/ pc["new"] = "idle" /\ consistency_check_behind
    \/ \E s \in Sweeps : OtherRowDone(s)
    \/ \E s \in Sweeps : OtherRowRaises(s)
    \/ \E s \in Sweeps : FetchReturns(s)
    \/ \E s \in Sweeps : FetchFails(s)
    \/ \E s \in Sweeps : RenderDone(s)
    \/ \E s \in Sweeps : RenderRaises(s)
    \/ NewPost

SpecRows ==
    /\ Init
    /\ [][NextRows]_vars
    /\ SF_vars(pc["consistency"] = "idle" /\ check_new_posts_behind)
    /\ \A s \in Sweeps :
          /\ WF_vars(OtherRowDone(s) \/ OtherRowRaises(s))
          /\ WF_vars(FetchReturns(s) \/ FetchFails(s))
          /\ WF_vars(RenderDone(s) \/ RenderRaises(s))

\* The two sweeps, never overlapping, over a feed whose server answers with the
\* listing or fails for a while with a passing error; every post can be rendered.
\* Each loop starts its sweep again after its period and every await comes back.
NextTransient ==
    \/ pc["consistency"] = "idle" /\ check_new_posts
    \/ pc["new"] = "idle" /\ consistency_check
    \/ \E s \in Sweeps : FetchAttempt(s)
    \/ \E s \in Sweeps : RenderDone(s)
    \/ NewPost /\ Malformed(feed') = {}
    \/ SourceChanges /\ source' \in Transient \cup {"ok"}

SpecTransient ==
    /\ Init
    /\ [][NextTransient]_vars
    /\ SF_vars(pc["consistency"] = "idle" /\ check_new_posts)
    /\ SF_vars(pc["new"] = "idle" /\ consistency_check)
    /\ \A s \in Sweeps : WF_vars(FetchAttempt(s)) /\ WF_vars(RenderDone(s))

\* /subscribe has just inserted the row of a regular subscription, with last_check
\* the time of the command, into a feed that holds up to MaxLen older posts, some
\* of them created at the very instant of the command; the sweeps interleave freely.
SubscribeTime == MaxTime

InitSubscribed ==
    /\ now = SubscribeTime
    /\ \E n \in 0..MaxLen : \E created \in [1..n -> 1..SubscribeTime] :
          /\ \A i, j \in 1..n : i <= j => created[i] <= created[j]
          /\ feed = [p \in 1..n |-> [created |-> created[p], malformed |-> FALSE]]
          /\ handed = [p \in 1..n |-> {}]
          /\ delivered = [p \in 1..n |-> 0]
    /\ sub = [table |-> "subscriptions", last_check |-> SubscribeTime,
              last_submission_id |-> None]
    /\ processed_submissions = EmptyDict
    /\ pc = Launched
    /\ last_check = [t \in Tasks |-> 0]
    /\ new_submissions = [t \in Tasks |-> <<>>]
    /\ pos = [t \in Tasks |-> 0]
    /\ processed_ids = [t \in Tasks |-> {}]
    /\ source = "ok"
    /\ tries = [t \in Tasks |-> 0]
    /\ subscribed = TRUE
    /\ fetch_limit = Limit
    /\ ExtInit
    /\ restarts = 0

SpecSubscribed == InitSubscribed /\ [][NextOverlap]_vars

\* ------------------------------------------------------- the sample bots
\* Each sample bot has one task, check_new_posts, and one table, subscriptions.
\* The bot with slash commands lists SampleLimit posts, the one without lists
\* PlainLimit; fetch_limit tells which of the two programs runs.
sample_frame == <<now, feed, processed_submissions, processed_ids, restarts, source,
                  tries, subscribed, fetch_limit, store_vars, render_vars, pure_vars,
                  command_vars>>

SampleCurrent == new_submissions["new"][pos["new"]]

SampleReturn ==
    /\ pc' = [pc EXCEPT !["new"] = "idle"]
    /\ last_check' = [last_check EXCEPT !["new"] = 0]
    /\ new_submissions' = [new_submissions EXCEPT !["new"] = <<>>]
    /\ pos' = [pos EXCEPT !["new"] = 0]

\* the SELECT of the row, up to `await reddit.subreddit(subreddit_name)`
sample_check_new_posts ==
    /\ fetch_limit = SampleLimit
    /\ pc["new"] = "idle"
    /\ pc' = [pc EXCEPT !["new"] = "opening"]
    /\ last_check' = [last_check EXCEPT !["new"] = sub.last_check]
    /\ UNCHANGED <<sub, new_submissions, pos, handed, delivered, sample_vars, sample_frame>>

\* new_last_check = datetime.now(timezone.utc), up to the request of the listing
SampleOpened ==
    /\ fetch_limit = SampleLimit
    /\ pc["new"] = "opening"
    /\ pc' = [pc EXCEPT !["new"] = "fetching"]
    /\ new_last_check' = now
    /\ new_last_submission_id' = sub.last_submission_id
    /\ UNCHANGED <<sub, last_check, new_submissions, pos, handed, delivered, sample_frame>>

\* `async for submission in subreddit.new(limit=10)` from item i on, up to the await
\* of process_submission or, after the break or the last item, through the UPDATE
SampleLoop(listing, i) ==
    IF \/ i > Len(listing)
       \/ feed[listing[i]].created <= last_check["new"]
       \/ listing[i] = sub.last_submission_id
    THEN /\ sub' = [sub EXCEPT !.last_check = new_last_check,
                               !.last_submission_id = new_last_submission_id]
         /\ SampleReturn
         /\ UNCHANGED <<handed, sample_vars>>
    ELSE /\ new_last_submission_id' =
                IF new_last_submission_id = None THEN listing[i] ELSE new_last_submission_id
         /\ new_submissions' = [new_submissions EXCEPT !["new"] = listing]
         /\ pos' = [pos EXCEPT !["new"] = i]
         /\ pc' = [pc EXCEPT !["new"] = "rendering"]
         /\ handed' = [handed EXCEPT ![listing[i]] = @ \cup {"new"}]
         /\ UNCHANGED <<sub, last_check, new_last_check>>

\* the listing arrives, newest first
SampleListed ==
    /\ fetch_limit = SampleLimit
    /\ pc["new"] = "fetching"
    /\ SampleLoop(Listing(feed, SampleLimit), 1)
    /\ UNCHANGED <<delivered, sample_frame>>

\* process_submission sent the post and returned: the loop goes on
SampleSent ==
    /\ fetch_limit = SampleLimit
    /\ pc["new"] = "rendering"
    /\ delivered' = Bump(delivered, SampleCurrent)
    /\ SampleLoop(new_submissions["new"], pos["new"] + 1)
    /\ UNCHANGED sample_frame

\* an await of the sweep raises: the except clauses print, the row is not written
SampleRaises ==
    /\ fetch_limit = SampleLimit
    /\ pc["new"] \in {"opening", "fetching", "rendering"}
    /\ SampleReturn
    /\ UNCHANGED <<sub, handed, delivered, sample_vars, sample_frame>>

\* the bot without slash commands: the SELECT of the row, up to the request of
\* the listing
plain_check_new_posts ==
    /\ fetch_limit = PlainLimit
    /\ pc["new"] = "idle"
    /\ pc' = [pc EXCEPT !["new"] = "fetching"]
    /\ last_check' = [last_check EXCEPT !["new"] = sub.last_check]
    /\ UNCHANGED <<sub, new_submissions, pos, handed, delivered, sample_vars, sample_frame>>

\* the first item from i on that is newer than last_check, each item being loaded
RECURSIVE NextNewer(_, _, _)
NextNewer(listing, i, since) ==
    IF i > Len(listing) THEN i
    ELSE IF feed[listing[i]].created > since THEN i
    ELSE NextNewer(listing, i + 1, since)

\* `async for submission in subreddit.new(limit=5)` from item i on, up to the
\* channel.send of a post newer than last_check or, after the last item, through
\* the UPDATE
PlainLoop(listing, i) ==
    LET j == NextNewer(listing, i, last_check["new"])
    IN  IF j > Len(listing)
        THEN /\ sub' = [sub EXCEPT !.last_check = now]
             /\ SampleReturn
             /\ UNCHANGED handed
        ELSE /\ new_submissions' = [new_submissions EXCEPT !["new"] = listing]
             /\ pos' = [pos EXCEPT !["new"] = j]
             /\ pc' = [pc EXCEPT !["new"] = "rendering"]
             /\ handed' = [handed EXCEPT ![listing[j]] = @ \cup {"new"}]
             /\ UNCHANGED <<sub, last_check>>

PlainListed ==
    /\ fetch_limit = PlainLimit
    /\ pc["new"] = "fetching"
    /\ PlainLoop(Listing(feed, PlainLimit), 1)
    /\ UNCHANGED <<delivered, sample_vars, sample_frame>>

\* channel.send(embed=embed, view=view) returned: the loop goes on
PlainSent ==
    /\ fetch_limit = PlainLimit
    /\ pc["new"] = "rendering"
    /\ delivered' = Bump(delivered, SampleCurrent)
    /\ PlainLoop(new_submissions["new"], pos["new"] + 1)
    /\ UNCHANGED <<sample_vars, sample_frame>>

PlainRaises ==
    /\ fetch_limit = PlainLimit
    /\ pc["new"] \in {"fetching", "rendering"}
    /\ SampleReturn
    /\ UNCHANGED <<sub, handed, delivered, sample_vars, sample_frame>>

InitSample ==
    /\ now = 0
    /\ feed = <<>>
    /\ sub = [table |-> "subscriptions", last_check |-> 0, last_submission_id |-> None]
    /\ processed_submissions = EmptyDict
    /\ pc = [t \in Tasks |-> IF t = "new" THEN "idle" ELSE "none"]
    /\ last_check = [t \in Tasks |-> 0]
    /\ new_submissions = [t \in Tasks |-> <<>>]
    /\ pos = [t \in Tasks |-> 0]
    /\ processed_ids = [t \in Tasks |-> {}]
    /\ source = "ok"
    /\ tries = [t \in Tasks |-> 0]
    /\ subscribed = TRUE
    /\ fetch_limit \in {SampleLimit, PlainLimit}
    /\ ExtInit
    /\ handed = <<>>
    /\ delivered = <<>>
    /\ restarts = 0

NextSample ==
    \/ sample_check_new_posts
    \/ SampleOpened
    \/ SampleListed
    \/ SampleSent
    \/ SampleRaises
    \/ plain_check_new_posts
    \/ PlainListed
    \/ PlainSent
    \/ PlainRaises
    \/ NewPost /\ Malformed(feed') = {}

SpecSample == InitSample /\ [][NextSample]_vars

\* ------------------------------------------------------ the forum sweep
\* One forum channel mirrors the feed through several subscriptions: rows of
\* forum_subscriptions, each with a thread of the forum, and a row of
\* individual_forum_subscriptions, which opens a thread for every post.
Threads == {"thread 1", "thread 2"}
NULL == "NULL"
PerPost == "thread per post"

Range(q) == {q[i] : i \in 1..Len(q)}

Row(table, subreddit, channel, thread, since) ==
    [table |-> table, subreddit |-> subreddit, channel_id |-> channel,
     thread_id |-> thread, last_check |-> since]

\* SELECT ... FROM table
SelectRows(store, table) == SelectSeq(store, LAMBDA r : r.table = table)

\* the channel process_submission is given for a row
Destination(row) ==
    IF row.table = "forum_subscriptions" /\ row.thread_id # NULL THEN row.thread_id
    ELSE PerPost

\* the posts fetch_new_submissions returns for a row as it was selected
Batch(row) == fetch_new_submissions(feed, row.last_check, Limit)

\* processed_submissions[channel_id] once `if channel_id not in processed_submissions` ran
Registered(d, channel) == IF channel \in DOMAIN d THEN d[channel] ELSE {}

\* UPDATE table SET last_check = now WHERE subreddit = ? AND channel_id = ?
UpdateCursor(store, table, subreddit, channel) ==
    [i \in 1..Len(store) |->
        IF /\ store[i].table = table
           /\ store[i].subreddit = subreddit
           /\ store[i].channel_id = channel
        THEN [store[i] EXCEPT !.last_check = now]
        ELSE store[i]]

\* where check_new_posts is after a row was processed: the rest of the loop, the
\* SELECT of the next loop, or the sleep
After(ph, rest, store) ==
    IF rest # <<>> THEN [phase |-> ph, todo |-> rest]
    ELSE IF ph = "forum" /\ SelectRows(store, "individual_forum_subscriptions") # <<>>
    THEN [phase |-> "individual",
          todo |-> SelectRows(store, "individual_forum_subscriptions")]
    ELSE [phase |-> "idle", todo |-> <<>>]

pipeline == <<sub, pc, last_check, new_submissions, pos, processed_ids, handed,
              delivered, restarts, source, tries, subscribed, fetch_limit>>

\* check_new_posts up to its first forum row: the cache is cleared, there is no
\* regular subscription, the forum rows are selected
check_new_posts_forums ==
    /\ phase = "idle"
    /\ SelectRows(rows, "subscriptions") = <<>>
    /\ processed_submissions' = EmptyDict
    /\ LET next == After("forum", SelectRows(rows, "forum_subscriptions"), rows)
       IN  phase' = next.phase /\ todo' = next.todo
    /\ UNCHANGED <<now, feed, rows, sent, channels, deleted, reply, pipeline, render_vars,
                 pure_vars, command_vars, sample_vars>>

\* the row at the head of the loop is processed: the posts of its batch that are
\* not in the set of its forum are added to it and sent, then the cursor is written
ProcessRow(row) ==
    LET batch == Batch(row)
        seen == Registered(processed_submissions, row.channel_id)
        looped == row.table = "individual_forum_subscriptions"
                  \/ row.thread_id = NULL \/ row.thread_id \in channels
        fresh == IF looped THEN Range(batch) \ seen ELSE {}
    IN  IF row.channel_id \in channels
        THEN /\ processed_submissions' =
                    DictSet(processed_submissions, row.channel_id, seen \cup fresh)
             /\ sent' = sent \cup {<<Destination(row), p>> : p \in fresh}
             /\ rows' = IF batch # <<>>
                        THEN UpdateCursor(rows, row.table, row.subreddit, row.channel_id)
                        ELSE rows
        ELSE UNCHANGED <<processed_submissions, sent, rows>>

process_forum_subscription ==
    /\ phase = "forum"
    /\ ProcessRow(Head(todo))
    /\ LET next == After("forum", Tail(todo), rows')
       IN  phase' = next.phase /\ todo' = next.todo
    /\ UNCHANGED <<now, feed, channels, deleted, reply, pipeline, render_vars, pure_vars, command_vars, sample_vars>>

process_individual_forum_subscription ==
    /\ phase = "individual"
    /\ ProcessRow(Head(todo))
    /\ LET next == After("individual", Tail(todo), rows')
       IN  phase' = next.phase /\ todo' = next.todo
    /\ UNCHANGED <<now, feed, channels, deleted, reply, pipeline, render_vars, pure_vars, command_vars, sample_vars>>

\* the subscriptions of the forum: /subscribe_forum was used for one or both
\* threads and /subscribe_forum_individual at most once, in any order
ForumRows ==
    {Row("forum_subscriptions", "feed", "forum", t, 0) : t \in Threads}
    \cup {Row("individual_forum_subscriptions", "feed", "forum", NULL, 0)}

\* the pipeline of the single followed row is at rest
Dormant ==
    /\ now = 0
    /\ feed = <<>>
    /\ sub = [table |-> "forum_subscriptions", last_check |-> 0, last_submission_id |-> None]
    /\ processed_submissions = EmptyDict
    /\ pc = [t \in Tasks |-> "none"]
    /\ last_check = [t \in Tasks |-> 0]
    /\ new_submissions = [t \in Tasks |-> <<>>]
    /\ pos = [t \in Tasks |-> 0]
    /\ processed_ids = [t \in Tasks |-> {}]
    /\ source = "ok"
    /\ tries = [t \in Tasks |-> 0]
    /\ subscribed = TRUE
    /\ fetch_limit = Limit
    /\ handed = <<>>
    /\ delivered = <<>>
    /\ restarts = 0

InitForum ==
    /\ Dormant
    /\ PureInit
    /\ CommandInit
    /\ SampleInit
    /\ \E n \in 1..Cardinality(ForumRows) : \E q \in [1..n -> ForumRows] :
          /\ \A i, j \in 1..n : i # j => q[i] # q[j]
          /\ rows = q
    /\ todo = <<>>
    /\ phase = "idle"
    /\ sent = {}
    /\ channels = {"forum"} \cup Threads
    /\ deleted = {}
    /\ reply = "none"
    /\ RenderInit

NextForum ==
    \/ check_new_posts_forums
    \/ process_forum_subscription
    \/ process_individual_forum_subscription
    \/ NewPost /\ Malformed(feed') = {}

SpecForum == InitForum /\ [][NextForum]_vars

\* ------------------------------------------------------------ the store
\* The slash commands and the daily cleanup act on the three tables.  A command
\* is given channel objects, so its channels exist when it runs; a thread opened
\* by a command gets an id that was never used.
Feeds == {"feed"}
TextChannels == {"channel"}
Forums == {"forum"}
NewThreads == {"thread 3", "thread 4"}

\* DELETE FROM table WHERE subreddit = ? AND channel_id = ?
Delete(store, table, subreddit, channel) ==
    SelectSeq(store, LAMBDA r : ~(/\ r.table = table
                                  /\ r.subreddit = subreddit
                                  /\ r.channel_id = channel))

\* mutant: the row of a missing thread is deleted together with every row of its forum
DeleteThreadMut(store, subreddit, channel, thread) ==
    Delete(store, "forum_subscriptions", subreddit, channel)

\* DELETE FROM forum_subscriptions WHERE subreddit = ? AND channel_id = ? AND thread_id = ?
DeleteThread(store, subreddit, channel, thread) ==
    SelectSeq(store, LAMBDA r : ~(/\ r.table = "forum_subscriptions"
                                  /\ r.subreddit = subreddit
                                  /\ r.channel_id = channel
                                  /\ r.thread_id # NULL
                                  /\ r.thread_id = thread))

\* SELECT ... FROM table WHERE subreddit = ? AND channel_id = ?
Existing(store, table, subreddit, channel) ==
    SelectSeq(store, LAMBDA r : /\ r.table = table
                                /\ r.subreddit = subreddit
                                /\ r.channel_id = channel)

\* a command runs: the clock has moved on
Command ==
    /\ now < MaxCommands
    /\ now' = now + 1

store_frame == <<feed, processed_submissions, todo, phase, sent, pipeline, render_vars,
                 pure_vars, command_vars, sample_vars>>

subscribe ==
    /\ Command
    /\ \E subreddit \in Feeds : \E channel \in TextChannels \cap channels :
          IF Existing(rows, "subscriptions", subreddit, channel) # <<>>
          THEN /\ rows' = rows
               /\ reply' = "already subscribed"
          ELSE /\ rows' = Append(rows, Row("subscriptions", subreddit, channel, NULL, now'))
               /\ reply' = "subscribed"
    /\ UNCHANGED <<channels, deleted, store_frame>>

\* the thread is given, or a thread is opened in the forum; the row is inserted
subscribe_forum ==
    /\ Command
    /\ \E subreddit \in Feeds : \E forum \in Forums \cap channels :
          \/ \E thread \in (Threads \cup NewThreads) \cap channels :
                /\ rows' = Append(rows,
                              Row("forum_subscriptions", subreddit, forum, thread, now'))
                /\ channels' = channels
          \/ \E thread \in NewThreads \ (channels \cup deleted) :
                /\ rows' = Append(rows,
                              Row("forum_subscriptions", subreddit, forum, thread, now'))
                /\ channels' = channels \cup {thread}
    /\ reply' = "subscribed"
    /\ UNCHANGED <<deleted, store_frame>>

\* the first row of the forum and feed decides: its thread is there (refused), or
\* it is gone (the rows of the forum and feed are deleted); then a thread is
\* opened and the row inserted
subscribe_forum_create ==
    /\ Command
    /\ \E subreddit \in Feeds : \E forum \in Forums \cap channels :
          LET existing == Existing(rows, "forum_subscriptions", subreddit, forum)
              refused == existing # <<>> /\ existing[1].thread_id \in channels
              kept == IF existing # <<>>
                      THEN Delete(rows, "forum_subscriptions", subreddit, forum)
                      ELSE rows
          IN  IF refused
              THEN /\ rows' = rows
                   /\ channels' = channels
                   /\ reply' = "already subscribed"
              ELSE \E thread \in NewThreads \ (channels \cup deleted) :
                      /\ rows' = Append(kept,
                                    Row("forum_subscriptions", subreddit, forum, thread, now'))
                      /\ channels' = channels \cup {thread}
                      /\ reply' = "subscribed"
    /\ UNCHANGED <<deleted, store_frame>>

subscribe_forum_individual ==
    /\ Command
    /\ \E subreddit \in Feeds : \E forum \in Forums \cap channels :
          IF Existing(rows, "individual_forum_subscriptions", subreddit, forum) # <<>>
          THEN /\ rows' = rows
               /\ reply' = "already subscribed"
          ELSE /\ rows' = Append(rows,
                             Row("individual_forum_subscriptions", subreddit, forum, NULL, now'))
               /\ reply' = "subscribed"
    /\ UNCHANGED <<channels, deleted, store_frame>>

Answer(before, after) == IF after # before THEN "unsubscribed" ELSE "no subscription found"

\* /unsubscribe
unsubscribe_channel ==
    /\ Command
    /\ \E subreddit \in Feeds : \E channel \in TextChannels \cap channels :
          /\ rows' = Delete(rows, "subscriptions", subreddit, channel)
          /\ reply' = Answer(rows, rows')
    /\ UNCHANGED <<channels, deleted, store_frame>>

unsubscribe_forum ==
    /\ Command
    /\ \E subreddit \in Feeds : \E forum \in Forums \cap channels :
          \E thread \in (Threads \cup NewThreads) \cap channels :
             /\ rows' = DeleteThread(rows, subreddit, forum, thread)
             /\ reply' = Answer(rows, rows')
    /\ UNCHANGED <<channels, deleted, store_frame>>

unsubscribe_forum_individual ==
    /\ Command
    /\ \E subreddit \in Feeds : \E forum \in Forums \cap channels :
          /\ rows' = Delete(rows, "individual_forum_subscriptions", subreddit, forum)
          /\ reply' = Answer(rows, rows')
    /\ UNCHANGED <<channels, deleted, store_frame>>

\* a channel, forum or thread is deleted in Discord
ChannelDeleted ==
    /\ \E id \in channels :
          /\ channels' = channels \ {id}
          /\ deleted' = deleted \cup {id}
    /\ UNCHANGED <<now, rows, reply, store_frame>>

\* one row of a loop of cleanup_subscriptions, selected before the loop
Clean(store, row) ==
    IF row.channel_id \notin channels
    THEN Delete(store, row.table, row.subreddit, row.channel_id)
    ELSE IF row.table = "forum_subscriptions" /\ row.thread_id \notin channels
    THEN DeleteThread(store, row.subreddit, row.channel_id, row.thread_id)
    ELSE store

RECURSIVE CleanLoop(_, _)
CleanLoop(store, selected) ==
    IF selected = <<>> THEN store
    ELSE CleanLoop(Clean(store, Head(selected)), Tail(selected))

\* the loops over forum_subscriptions, individual_forum_subscriptions and subscriptions
Cleaned(store) ==
    LET forums == CleanLoop(store, SelectRows(store, "forum_subscriptions"))
        individual == CleanLoop(forums, SelectRows(forums, "individual_forum_subscriptions"))
    IN  CleanLoop(individual, SelectRows(individual, "subscriptions"))

cleanup_subscriptions ==
    /\ rows' = Cleaned(rows)
    /\ rows' # rows
    /\ UNCHANGED <<now, channels, deleted, reply, store_frame>>

InitStore ==
    /\ Dormant
    /\ PureInit
    /\ CommandInit
    /\ SampleInit
    /\ rows = <<>>
    /\ todo = <<>>
    /\ phase = "idle"
    /\ sent = {}
    /\ channels = TextChannels \cup Forums \cup Threads
    /\ deleted = {}
    /\ reply = "none"
    /\ RenderInit

NextStore ==
    \/ subscribe
    \/ subscribe_forum
    \/ subscribe_forum_create
    \/ subscribe_forum_individual
    \/ unsubscribe_channel
    \/ unsubscribe_forum
    \/ unsubscribe_forum_individual
    \/ ChannelDeleted
    \/ cleanup_subscriptions

SpecStore == InitStore /\ [][NextStore]_vars

\* ------------------------------------- subscribe_forum_create, await by await
\* The command between two awaits is one step: the check of the table (with the
\* DELETE of the rows of a thread that is gone) runs up to the fetch of the latest
\* post; the fetch and forum.create_thread are awaited; the INSERT follows.
create_frame == <<feed, processed_submissions, todo, phase, sent, pipeline, render_vars,
                  pure_vars, sample_vars>>

\* from the SELECT to the first await after it
subscribe_forum_create_check ==
    /\ Command
    /\ \E subreddit \in Feeds : \E forum \in Forums \cap channels :
          LET existing == Existing(rows, "forum_subscriptions", subreddit, forum)
              refused == existing # <<>> /\ existing[1].thread_id \in channels
          IN  IF refused
              THEN /\ rows' = rows
                   /\ creating' = creating
                   /\ reply' = "already subscribed"
              ELSE /\ creating < MaxCreating
                   /\ rows' = IF existing # <<>>
                              THEN Delete(rows, "forum_subscriptions", subreddit, forum)
                              ELSE rows
                   /\ creating' = creating + 1
                   /\ reply' = IF existing # <<>> THEN "creating a new one" ELSE reply
    /\ UNCHANGED <<channels, deleted, create_frame>>

\* the latest post was fetched and the thread created: the row is inserted
subscribe_forum_create_insert ==
    /\ creating > 0
    /\ \E subreddit \in Feeds : \E forum \in Forums \cap channels :
       \E thread \in NewThreads \ (channels \cup deleted) :
          /\ rows' = Append(rows, Row("forum_subscriptions", subreddit, forum, thread, now))
          /\ channels' = channels \cup {thread}
    /\ creating' = creating - 1
    /\ reply' = "subscribed"
    /\ UNCHANGED <<now, deleted, create_frame>>

\* the fetch or forum.create_thread raises: the command answers and returns
subscribe_forum_create_raises ==
    /\ creating > 0
    /\ creating' = creating - 1
    /\ reply' = "error"
    /\ UNCHANGED <<now, rows, channels, deleted, create_frame>>

NextCreate ==
    \/ subscribe_forum_create_check
    \/ subscribe_forum_create_insert
    \/ subscribe_forum_create_raises
    \/ ChannelDeleted

SpecCreate == InitStore /\ [][NextCreate]_vars

\* ------------------------------------------------------------ the renderer
\* process_submission as a function from the loaded post and the visible buttons
\* to the messages it sends.  A post is its identity (what the title, author,
\* timestamp, permalink and footer show) and the features the code looks at.
Buttons == {"Reddit Post", "Image Gallery", "RedGIFs", "Watch Video", "YouTube Link", "Web Link"}

\* how the requests for one image go: HEAD and GET answer 200 and the size is
\* within MAX_VIDEO_SIZE ("ok"); a GIF above it; another image above it; HEAD does
\* not answer 200; GET does not answer 200
ImageKinds == {"ok", "oversized gif", "oversized", "probe fails", "download fails"}

\* submission.url: host redgifs.com; i.redd.it, i.imgur.com or a preview.redd.it
\* image; youtube.com or youtu.be with an id; a path with /gallery/; anything else
Urls == {"redgifs", "image", "youtube", "gallery link", "link"}

Identity(id) ==
    [id |-> id, title |-> id, author |-> id, created_utc |-> id, permalink |-> id,
     subreddit |-> id]

ImageLists == UNION {[1..n -> ImageKinds] : n \in 0..MaxImages}

RECURSIVE SubsetsUpTo(_, _)
SubsetsUpTo(S, k) ==
    IF k = 0 THEN {{}}
    ELSE LET smaller == SubsetsUpTo(S, k - 1)
         IN  smaller \cup {T \cup {x} : T \in smaller, x \in S}

\* long galleries: all images are sent except a few, which go one way
GalleryLists ==
    UNION {{[i \in 1..n |-> IF i \in F THEN k ELSE "ok"] :
                F \in SubsetsUpTo(1..n, MaxFailed), k \in ImageKinds} : n \in 0..MaxGallery}

\* a self post has no link, a gallery links to itself, a poll is a self post;
\* images are gallery items, links in the body or poll media
Features ==
    {f \in [poll_data : BOOLEAN, media_metadata : {"none", "Image", "RedditVideo"},
            player_link : BOOLEAN, is_gallery : BOOLEAN, is_self : BOOLEAN, url : Urls,
            video : BOOLEAN, download : BOOLEAN, images : ImageLists] :
        /\ f.is_self => f.url = "link" /\ ~f.is_gallery
        /\ f.is_gallery => f.url = "gallery link"
        /\ f.poll_data => f.is_self
        /\ f.images # <<>> => f.is_gallery \/ f.is_self
        /\ f.download => f.video}

PlainLink ==
    [poll_data |-> FALSE, media_metadata |-> "none", player_link |-> FALSE,
     is_gallery |-> FALSE, is_self |-> FALSE, url |-> "link", video |-> FALSE,
     download |-> FALSE, images |-> <<>>]

PlainGallery(images) ==
    [PlainLink EXCEPT !.is_gallery = TRUE, !.url = "gallery link", !.images = images]

Standalone(id, f) == Identity(id) @@ f @@ [crosspost_parent_list |-> <<>>]

Crosspost(f) ==
    Identity("crosspost") @@ PlainLink
        @@ [crosspost_parent_list |-> <<Identity("origin") @@ f>>]

Submissions ==
    {Standalone("post", f) : f \in Features}
    \cup {Crosspost(f) : f \in Features}
    \cup {Standalone("post", PlainGallery(images)) : images \in GalleryLists}

\* mutant: the origin is processed with its own title, author, timestamp and permalink
ProcessingMut(s) ==
    IF s.crosspost_parent_list # <<>> THEN s.crosspost_parent_list[1] ELSE s

\* processing_submission: the origin of a crosspost under the crosspost's title,
\* subreddit, author, timestamp and permalink, or the post itself
Processing(s) ==
    IF s.crosspost_parent_list # <<>>
    THEN [s.crosspost_parent_list[1] EXCEPT
            !.title = s.title, !.subreddit = s.subreddit, !.author = s.author,
            !.created_utc = s.created_utc, !.permalink = s.permalink]
    ELSE s

create_button(label, visible) == IF label \in visible THEN {label} ELSE {}

Field(name, value) == [name |-> name, value |-> value]

\* the field added when processing_submission != submission
add_footer_and_crosspost_info(fields, p, s) ==
    IF p.id # s.id
    THEN Append(fields, Field("Crosspost", s.crosspost_parent_list[1].subreddit))
    ELSE fields

\* channel.send(embed=embed, view=view)
Embed(branch, p, fields, view) ==
    [kind |-> "embed", branch |-> branch, title |-> p.title, author |-> p.author,
     timestamp |-> p.created_utc, url |-> p.permalink, footer |-> p.subreddit,
     fields |-> fields, view |-> view, files |-> <<>>]

\* a message without the post's embed: files, an oversized GIF, a video, buttons only
Extra(kind, branch, files, view) ==
    [kind |-> kind, branch |-> branch, title |-> NULL, author |-> NULL,
     timestamp |-> NULL, url |-> NULL, footer |-> NULL,
     fields |-> <<>>, view |-> view, files |-> files]

\* mutant: the list is sent whole, however long
ChunksMut(q, n) == IF q = <<>> THEN <<>> ELSE <<q>>

\* q[0:n], q[n:2n], ...
RECURSIVE Chunks(_, _)
Chunks(q, n) ==
    IF q = <<>> THEN <<>>
    ELSE IF Len(q) <= n THEN <<q>>
    ELSE <<SubSeq(q, 1, n)>> \o Chunks(SubSeq(q, n + 1, Len(q)), n)

Indices(q) == [i \in 1..Len(q) |-> i]

\* the images that download are sent ten to a message, the view with the last
send_image_carousel(branch, p, image_urls, view) ==
    LET files == SelectSeq(image_urls, LAMBDA i : p.images[i] = "ok")
        chunks == Chunks(files, BatchSize)
    IN  [k \in 1..Len(chunks) |->
            Extra("files", branch, chunks[k], IF k = Len(chunks) THEN view ELSE {})]

\* self posts and polls: oversized GIFs are embedded, the rest goes to the carousel
Images(branch, p, visible) ==
    LET view == create_button("Reddit Post", visible)
        oversized_gifs == SelectSeq(Indices(p.images),
                                    LAMBDA i : p.images[i] = "oversized gif")
        remaining_urls == SelectSeq(Indices(p.images),
                              LAMBDA i : p.images[i] \notin {"oversized gif", "probe fails"})
    IN  [k \in 1..Len(oversized_gifs) |->
            Extra("gif", branch, <<oversized_gifs[k]>>,
                  IF k = Len(oversized_gifs) /\ remaining_urls = <<>> THEN view ELSE {})]
        \o send_image_carousel(branch, p, remaining_urls, view)

process_reddit_poll(p, visible) ==
    LET post == create_button("Reddit Post", visible)
        polls == <<Field("Poll Options", "text")>>
        image_urls == IF p.media_metadata = "Image" THEN p.images ELSE <<>>
    IN  IF p.media_metadata = "RedditVideo" /\ p.player_link
        THEN <<Embed("poll", p,
                     polls \o <<Field("Reddit Video", "text"), Field("Video Link(s)", "text")>>,
                     post \cup create_button("Watch Video", visible))>>
        ELSE IF image_urls # <<>>
        THEN <<Embed("poll", p, polls, {})>> \o Images("poll", p, visible)
        ELSE <<Embed("poll", p, polls, post)>>

\* process_reddit_video: the messages, none when it returns False
process_reddit_video(p, visible) ==
    IF p.media_metadata = "RedditVideo" /\ p.player_link
    THEN <<Embed("hosted video", p,
                 <<Field("Reddit Video", "text"), Field("Video Link(s)", "text")>>,
                 create_button("Reddit Post", visible)
                     \cup create_button("Watch Video", visible))>>
    ELSE <<>>

Gallery(p, s, visible) ==
    LET oversized_gifs == SelectSeq(Indices(p.images),
                                    LAMBDA i : p.images[i] = "oversized gif")
        image_urls == SelectSeq(Indices(p.images),
                          LAMBDA i : p.images[i] \notin {"oversized gif", "probe fails"})
        reddit_post_button == create_button("Reddit Post", visible)
        gallery_button == create_button("Image Gallery", visible)
        chunks == Chunks(image_urls, BatchSize)
        Carousel(k) ==
            IF k = Len(chunks)
            THEN send_image_carousel("gallery", p, chunks[k],
                                     reddit_post_button \cup gallery_button)
            ELSE send_image_carousel("gallery", p, chunks[k], {})
        Sent[k \in 0..Len(chunks)] == IF k = 0 THEN <<>> ELSE Sent[k - 1] \o Carousel(k)
    IN  <<Embed("gallery", p,
                add_footer_and_crosspost_info(
                    <<Field("Image Gallery", "text"), Field("Gallery Link", "text")>>, p, s),
                {})>>
        \o [k \in 1..Len(oversized_gifs) |-> Extra("gif", "gallery", <<oversized_gifs[k]>>, {})]
        \o (IF image_urls # <<>> THEN Sent[Len(chunks)]
            ELSE IF reddit_post_button # {} /\ gallery_button # {}
            THEN <<Extra("suppressed", "gallery", <<>>, reddit_post_button \cup gallery_button)>>
            ELSE <<>>)

\* the last send of process_submission: the embed with its view
Last(branch, p, s, fields, view) ==
    <<Embed(branch, p, add_footer_and_crosspost_info(fields, p, s), view)>>

\* an embed without buttons, then the video file with them
WithVideo(branch, p, s, fields, view) ==
    <<Embed(branch, p, add_footer_and_crosspost_info(fields, p, s), {}),
      Extra("file", branch, <<>>, view)>>

\* the chain from `if ... is_gallery` to the last send
Content(p, s, visible) ==
    LET post == create_button("Reddit Post", visible)
    IN  IF p.is_gallery THEN Gallery(p, s, visible)
        ELSE IF p.url = "redgifs"
        THEN IF p.video /\ p.download
             THEN WithVideo("RedGIFs", p, s, <<Field("RedGIFs Video", "text")>>,
                            post \cup create_button("RedGIFs", visible))
             ELSE Last("RedGIFs", p, s, <<Field("RedGIFs Link", "text")>>,
                       post \cup create_button("RedGIFs", visible))
        ELSE IF p.is_self
        THEN IF p.images = <<>>
             THEN Last("self post", p, s, <<>>, post)
             ELSE <<Embed("self post", p,
                          add_footer_and_crosspost_info(
                              <<Field("Reddit Images", "text")>>, p, s), {})>>
                  \o Images("self post", p, visible)
        ELSE IF p.url = "image" THEN Last("image", p, s, <<>>, post)
        ELSE IF p.video
        THEN IF p.download
             THEN WithVideo("native video", p, s, <<Field("Reddit Video", "text")>>,
                            post \cup create_button("Watch Video", visible))
             ELSE Last("native video", p, s,
                       <<Field("Reddit Video", "text"), Field("Note", "text")>>,
                       post \cup create_button("Watch Video", visible))
        ELSE IF p.url = "youtube"
        THEN Last("YouTube", p, s, <<Field("YouTube", "text")>>,
                  post \cup create_button("YouTube Link", visible))
        ELSE IF p.url = "gallery link"
        THEN Last("gallery link", p, s, <<Field("Image Gallery Link", "text")>>,
                  post \cup create_button("Image Gallery", visible))
        ELSE Last("link", p, s, <<Field("Link", "text")>>,
                  post \cup create_button("Web Link", visible))

\* mutant: the poll is rendered and the function goes on to the other branches
process_submissionMut(s, visible) ==
    LET p == Processing(s)
    IN  IF p.poll_data
        THEN process_reddit_poll(p, visible) \o Content(p, s, visible)
        ELSE IF process_reddit_video(p, visible) # <<>>
        THEN process_reddit_video(p, visible)
        ELSE Content(p, s, visible)

process_submission(s, visible) ==
    LET p == Processing(s)
    IN  IF p.poll_data THEN process_reddit_poll(p, visible)
        ELSE IF process_reddit_video(p, visible) # <<>>
        THEN process_reddit_video(p, visible)
        ELSE Content(p, s, visible)

render_frame == <<now, feed, processed_submissions, pipeline, store_vars, pure_vars, command_vars, sample_vars>>

\* one call of process_submission whose submission.load() returns
RenderSubmission ==
    /\ rendered = "pending"
    /\ messages' = process_submission(submission, button_visibility)
    /\ rendered' = "done"
    /\ UNCHANGED <<submission, button_visibility, render_frame>>

\* submission.load() raises RequestException: the function returns
RenderLoadFails ==
    /\ rendered = "pending"
    /\ messages' = <<>>
    /\ rendered' = "load failed"
    /\ UNCHANGED <<submission, button_visibility, render_frame>>

InitRender ==
    /\ Dormant
    /\ PureInit
    /\ CommandInit
    /\ SampleInit
    /\ rows = <<>>
    /\ todo = <<>>
    /\ phase = "idle"
    /\ sent = {}
    /\ channels = {}
    /\ deleted = {}
    /\ reply = "none"
    /\ submission \in Submissions
    /\ button_visibility \in {Buttons, {}, {"Reddit Post"}, Buttons \ {"Reddit Post"}}
    /\ messages = <<>>
    /\ rendered = "pending"

NextRender ==
    \/ RenderSubmission
    \/ RenderLoadFails

SpecRender == InitRender /\ [][NextRender]_vars

\* ------------------------------------------------------- truncate_string
\* A string is the sequence of its characters. A character of a title is written as
\* its position in the title, and the full stop as 0.
Ellipsis == <<0, 0, 0>>

Titles == {[i \in 1..n |-> i] : n \in 0..MaxTitle}

\* string[:k]
Slice(string, k) ==
    LET stop == IF k >= 0 THEN Min(k, Len(string))
                ELSE IF Len(string) + k > 0 THEN Len(string) + k ELSE 0
    IN  SubSeq(string, 1, stop)

\* mutant: the slice keeps max_length characters
truncate_stringMut(string, max_length) ==
    IF Len(string) > max_length THEN Slice(string, max_length) \o Ellipsis ELSE string

truncate_string(string, max_length) ==
    IF Len(string) > max_length THEN Slice(string, max_length - 3) \o Ellipsis ELSE string

\* the max_length of each caller
Budget(caller) == IF caller = "title" THEN TitleLimit ELSE ThreadNameLimit

pure_frame == <<now, feed, processed_submissions, pipeline, store_vars, render_vars,
                command_vars, sample_vars>>

\* the title of the embed
ClipTitle ==
    /\ clip = "none"
    /\ clipped' = truncate_string(title, TitleLimit)
    /\ clip' = "title"
    /\ UNCHANGED <<title, poll_vars, pure_frame>>

\* the name of the thread of a post
ClipThreadName ==
    /\ clip = "none"
    /\ clipped' = truncate_string(title, ThreadNameLimit)
    /\ clip' = "thread name"
    /\ UNCHANGED <<title, poll_vars, pure_frame>>

InitTruncate ==
    /\ Dormant
    /\ rows = <<>>
    /\ todo = <<>>
    /\ phase = "idle"
    /\ sent = {}
    /\ channels = {}
    /\ deleted = {}
    /\ reply = "none"
    /\ RenderInit
    /\ title \in Titles
    /\ clip = "none"
    /\ clipped = <<>>
    /\ PollInit
    /\ CommandInit
    /\ SampleInit

NextTruncate ==
    \/ ClipTitle
    \/ ClipThreadName

SpecTruncate == InitTruncate /\ [][NextTruncate]_vars

\* ------------------------------------------------- the end of a poll
\* datetime.now(timezone.utc) at the render, in whole seconds: 2026-11-05 00:00 UTC
Today == 1793836800

\* 9999-12-31 23:59:59 UTC in seconds
LastSecond == Wide(253402300, 799)

\* w > v
Above(w, v) == w.hi > v.hi \/ (w.hi = v.hi /\ w.lo > v.lo)

\* timestamp / 1000 when it is above LastSecond, the timestamp otherwise
adjusted_timestamp(ts) ==
    IF Above(ts, LastSecond) THEN Instant(ts.hi, ts.lo)
    ELSE Instant(ts.hi * 1000 + ts.lo, 0)

\* (end_time - current_time) in milliseconds
Duration(end_time, clock) ==
    (end_time.seconds - clock.seconds) * 1000 + (end_time.millis - clock.millis)

\* mutant: the time left is shown whatever its sign
PollTimeMut(ts, clock) ==
    LET duration == Duration(adjusted_timestamp(ts), clock)
        seconds == (duration \div 1000) % 86400
    IN  TimeField("Poll Ends", duration \div 86400000, seconds \div 3600,
                  (seconds % 3600) \div 60)

\* lines 1171 to 1189: the field for the timestamp ts rendered at the instant clock
\* (datetime.fromtimestamp raises only past the year 9999, beyond a Wide with a 32-bit hi)
PollTime(ts, clock) ==
    IF ts = Wide(0, 0) THEN TimeField("none", 0, 0, 0)
    ELSE LET duration == Duration(adjusted_timestamp(ts), clock)
             days == duration \div 86400000
             seconds == (duration \div 1000) % 86400
             hours == seconds \div 3600
             remainder == seconds % 3600
             minutes == remainder \div 60
         IN  IF duration > 0 THEN TimeField("Poll Ends", days, hours, minutes)
             ELSE TimeField("Poll Status", 0, 0, 0)

\* the ends of polls: days, hours, minutes and seconds before or after Today
Ends ==
    {Today + d * 86400 + h * 3600 + m * 60 + sec :
        d \in (0 - 1)..MaxDays, h \in {0, 1, 23}, m \in {0, 1, 59}, sec \in {0, 1, 59}}

\* an integer number of seconds, and of milliseconds, as voting_end_timestamp
InSeconds(t) == Wide(t \div 1000, t % 1000)
InMillis(t, ms) == Wide(t, ms)

PollTimestamps ==
    {Wide(0, 0)} \cup {InSeconds(t) : t \in Ends}
                 \cup {InMillis(t, ms) : t \in Ends, ms \in {0, 999}}

poll_frame == <<now, feed, processed_submissions, pipeline, store_vars, render_vars,
                truncate_vars, command_vars, sample_vars>>

\* the poll has an end time: the field is added
PollEndField ==
    /\ poll_time.name = "none"
    /\ voting_end_timestamp # Wide(0, 0)
    /\ poll_time' = PollTime(voting_end_timestamp, current_time)
    /\ UNCHANGED <<voting_end_timestamp, current_time, poll_frame>>

\* voting_end_timestamp is falsy: no field is added and the embed is sent
PollNoEnd ==
    /\ poll_time.name = "none"
    /\ voting_end_timestamp = Wide(0, 0)
    /\ poll_time' = TimeField("sent", 0, 0, 0)
    /\ UNCHANGED <<voting_end_timestamp, current_time, poll_frame>>

InitPoll ==
    /\ Dormant
    /\ rows = <<>>
    /\ todo = <<>>
    /\ phase = "idle"
    /\ sent = {}
    /\ channels = {}
    /\ deleted = {}
    /\ reply = "none"
    /\ RenderInit
    /\ TruncateInit
    /\ CommandInit
    /\ SampleInit
    /\ voting_end_timestamp \in PollTimestamps
    /\ current_time \in {Instant(Today, ms) : ms \in {0, 500}}
    /\ poll_time = TimeField("none", 0, 0, 0)

NextPoll ==
    \/ PollEndField
    \/ PollNoEnd

SpecPoll == InitPoll /\ [][NextPoll]_vars

\* ------------------------------------------------------------- events
\* In this step the server answers an attempt of sweep s to fetch the feed.
AttemptEvent(s) == pc[s] = "fetching" /\ tries'[s] = tries[s] + 1

\* In this step the sweep of a sample bot starts to send post p.
SampleHandEvent(p) ==
    /\ pc'["new"] = "rendering"
    /\ pc["new"] # "rendering" \/ pos'["new"] # pos["new"]
    /\ new_submissions'["new"][pos'["new"]] = p

\* In this step sweep s calls process_submission for post p.
HandEvent(s, p) ==
    /\ pc'[s] = "rendering"
    /\ pc[s] # "rendering" \/ pos'[s] # pos[s]
    /\ Reverse(new_submissions'[s])[pos'[s]] = p

\* In this step sweep s leaves process_*_subscription with its for loop run off
\* the end of the batch.
LoopExhausted(s) ==
    /\ pc[s] \in {"fetching", "rendering"}
    /\ pc'[s] = "idle"
    /\ LET batch == IF pc[s] = "fetching"
                    THEN fetch_new_submissions(feed, last_check[s], Limit)
                    ELSE new_submissions[s]
           seen == IF channel_id \in DOMAIN processed_submissions
                   THEN processed_submissions[channel_id]
                   ELSE {}
       IN  NextUnprocessed(Reverse(batch), pos[s] + 1, seen) > Len(batch)

Posts == 1..Len(feed)

\* the positions of a task between the SELECT of a sweep and its end
InSweep == {"earlier", "fetching", "rendering"}

Seen == IF channel_id \in DOMAIN processed_submissions
        THEN processed_submissions[channel_id]
        ELSE {}

\* Sweep s is fetching the feed for a window that holds post p, and the server fails.
FetchFailing(s, p) ==
    /\ p \in Posts
    /\ pc[s] = "fetching"
    /\ source \in Transient
    /\ feed[p].created > last_check[s]

\* In this step the forum sweep processes the row at the head of its loop.
RowEvent == todo # <<>> /\ todo' # todo

\* In this step cleanup_subscriptions deletes rows: no command ran, rows are gone.
CleanupEvent == rows' # rows /\ now' = now

\* bot.get_channel finds the channel of the row and, for a forum row, its thread
Resolves(row) ==
    /\ row.channel_id \in channels
    /\ row.table = "forum_subscriptions" => row.thread_id \in channels

\* The post whose content is rendered: the origin of a crosspost, or the post.
Content_of(s) ==
    IF s.crosspost_parent_list # <<>> THEN s.crosspost_parent_list[1] ELSE s

\* the images of the attachment batches among the messages, in the order sent
RECURSIVE Attached(_)
Attached(units) ==
    IF units = <<>> THEN <<>>
    ELSE (IF Head(units).kind = "files" THEN Head(units).files ELSE <<>>)
         \o Attached(Tail(units))

Units(kinds) == {i \in 1..Len(messages) : messages[i].kind \in kinds}

\* ------------------------------------------------------------- claims

\* C1: when the sweeps over the pair do not overlap and nothing fails, no post is
\* handed to process_submission a second time: a sweep that runs again over a
\* window whose posts were delivered, with the cursor written, sends none of them.
C1_HandedAtMostOnce ==
    [][\A s \in Sweeps : \A p \in Posts : HandEvent(s, p) => handed[p] = {}]_vars

\* a later cycle fetched over the window of a delivered post and handed only a newer one
C1_Witness ==
    \E s \in Sweeps : \E p \in Posts :
        /\ delivered[p] = 1
        /\ sub.last_check >= feed[p].created
        /\ pc[s] = "rendering"
        /\ last_check[s] >= feed[p].created
        /\ Current(s) > p

\* C2: under every interleaving of check_new_posts and consistency_check, no post
\* is handed to process_submission by both sweeps.
C2_NoPostRenderedByBothSweeps ==
    \A p \in Posts : Cardinality(handed[p]) <= 1

\* C3: when last_check of the row moves from L to L' and at most Limit posts were
\* newer than L, every post created in (L, L'] has been handed to
\* process_submission or is in the dedup set of the channel.
C3_CursorNeverPassesUnhandedPost ==
    [][(/\ sub'.last_check # sub.last_check
        /\ Cardinality({p \in Posts : feed[p].created > sub.last_check}) <= Limit)
       => \A p \in Posts :
            (feed[p].created > sub.last_check /\ feed[p].created <= sub'.last_check)
            => (handed'[p] # {} \/ p \in Seen')]_vars

\* C4: when more than Limit posts are newer than the cursor at fetch time, the
\* posts older than the newest Limit are not dropped: none of them is left at or
\* behind the cursor without having been handed to process_submission.
C4_OverflowPostsNotDropped ==
    \A p \in Posts : feed[p].created <= sub.last_check => handed[p] # {}

C6_BatchSurvivesRenderError ==
    [][(pc["new"] = "rendering" /\ pc'["new"] = "idle")
       => (LoopExhausted("new") /\ sub'.last_check = now)]_vars

\* C7: with no further post arriving, the cursor eventually passes the creation
\* time of a post whose rendering fails on every attempt.
C7_MalformedPostDoesNotWedge ==
    (Len(feed) = MaxPosts /\ Malformed(feed) # {})
        ~> (\A p \in Malformed(feed) : sub.last_check >= feed[p].created)

\* C8: a post delivered in one cycle is not delivered again by a later cycle of
\* the new-posts sweep when a newer post of its batch fails to render.
C8_NoRedeliveryAfterRenderError ==
    \A p \in Posts : delivered[p] <= 1

\* C9: last_check of the row changes only in the step in which a sweep's loop has
\* run off the end of its fetched batch; a process that stops before that step
\* leaves last_check as it was.
C9_CursorWrittenAfterBatch ==
    [][sub'.last_check # sub.last_check
       => (restarts' = restarts /\ \E s \in Sweeps : LoopExhausted(s))]_vars

\* a sweep is inside its batch, has delivered a post of it, and the row still
\* holds the last_check the sweep read
C9_Witness ==
    \E s \in Sweeps :
        /\ pc[s] = "rendering"
        /\ pos[s] >= 2
        /\ delivered[Reverse(new_submissions[s])[1]] >= 1
        /\ sub.last_check = last_check[s]

\* C10: last_check of the row never decreases, over new-posts sweeps,
\* reconciliation sweeps and restarts, whichever sweep writes last.
C10_CursorMonotone ==
    [][sub'.last_check >= sub.last_check]_vars

\* a sweep that read the row before the other sweep's write is about to write it
C10_Witness ==
    \E s \in Sweeps :
        /\ pc[s] = "rendering"
        /\ pos[s] = Len(new_submissions[s])
        /\ last_check[s] < sub.last_check

C12_RowAccessSerialized ==
    ~(pc["new"] \in InSweep /\ pc["consistency"] \in InSweep)

\* C13: at most one execution of the new-posts sweep is in progress at any time,
\* however often on_ready fires and however long a sweep lasts.
C13_OneNewPostsSweep ==
    Cardinality({t \in Loops : pc[t] \in InSweep}) <= 1

\* C14: fetch_new_submissions(subreddit, last_check, limit) returns, in the order of
\* the listing (newest first), exactly the longest prefix of the first `limit`
\* entries of the listing whose posts are all strictly newer than last_check: it
\* stops at the first post at or older than last_check and returns no such post.
C14_LongestNewerPrefix ==
    (source = "ok" /\ pc["new"] = "returned")
    => LET out == new_submissions["new"]
           listing == Listing(feed, fetch_limit)
       IN  /\ Len(out) <= Len(listing)
           /\ \A i \in 1..Len(out) :
                 out[i] = listing[i] /\ feed[out[i]].created > last_check["new"]
           /\ Len(out) < Len(listing)
                 => feed[listing[Len(out) + 1]].created <= last_check["new"]

\* a call stopped at an old post of the listing that has a newer post behind it
C14_Witness ==
    /\ source = "ok"
    /\ pc["new"] = "returned"
    /\ LET out == new_submissions["new"]
           listing == Listing(feed, fetch_limit)
       IN  /\ Len(out) >= 1
           /\ \E i \in (Len(out) + 2)..Len(listing) :
                 feed[listing[i]].created > last_check["new"]

\* C15: when the server answers the fetch of a feed with TooManyRequests, the feed
\* is skipped for the cycle only by the third attempt of that cycle, exactly 3
\* attempts having been made, and the row is left as it was.
C15_RateLimitTriedThrice ==
    [][\A s \in Sweeps :
         (source = "TooManyRequests" /\ AttemptEvent(s) /\ pc'[s] = "idle")
         => (tries'[s] = max_tries /\ sub' = sub)]_vars

\* C16: while the server answers with ServerError or RequestException, the sweep
\* makes at most max_tries attempts in a cycle; it gives the feed up only with the
\* last of them, and no attempt hands on or delivers a post, writes the row or
\* removes it, so that the next cycle selects the row and fetches the feed again.
C16_ServerErrorRetriedToLimit ==
    [][\A s \in Sweeps :
         (source \in Retried /\ AttemptEvent(s))
         => /\ tries'[s] <= max_tries
            /\ pc'[s] \in {"fetching", "idle"}
            /\ pc'[s] = "idle" => tries'[s] = max_tries
            /\ sub' = sub
            /\ subscribed' = subscribed
            /\ handed' = handed
            /\ delivered' = delivered]_vars

\* a sweep gave up after max_tries attempts and left a post newer than the cursor
\* for the next cycle
C16_Witness ==
    \E s \in Sweeps : \E p \in Posts :
        /\ source \in Retried
        /\ pc[s] = "idle"
        /\ tries[s] = max_tries
        /\ subscribed
        /\ feed[p].created > sub.last_check
        /\ handed[p] = {}

\* C17: a Forbidden or NotFound answer reaches the caller of fetch_new_submissions
\* as an error: what the caller gets differs from the empty list that a fetch
\* without new posts returns.
C17_PermanentErrorReported ==
    source \in Swallowed => ~(pc["new"] = "returned" /\ new_submissions["new"] = <<>>)

\* C18: after a Forbidden or NotFound answer the sweep makes no further attempt in
\* the cycle, and no step of the new-posts or the reconciliation sweep adds or
\* removes the subscription row.
C18_PermanentErrorLeavesRow ==
    [][\A s \in Sweeps :
         /\ (source \in Swallowed /\ AttemptEvent(s)) => pc'[s] = "idle"
         /\ (pc'[s] # pc[s] \/ tries'[s] # tries[s] \/ pos'[s] # pos[s])
               => subscribed' = subscribed]_vars

\* a sweep met a Forbidden or NotFound answer at its first attempt and ended there,
\* with the row in place and a post of the feed still newer than the cursor
C18_Witness ==
    \E s \in Sweeps : \E p \in Posts :
        /\ source \in Swallowed
        /\ pc[s] = "idle"
        /\ tries[s] = 1
        /\ subscribed
        /\ feed[p].created > sub.last_check
        /\ handed[p] = {}

\* C19: an exception other than the HTTP errors, raised while fetch_new_submissions
\* iterates the listing, makes the fetch an empty result: the sweep's call ends
\* with no post handed to process_submission and the row as it was.
C19_UnexpectedErrorIsEmptyResult ==
    [][\A s \in Sweeps :
         (source = "Exception" /\ AttemptEvent(s))
         => (pc'[s] = "idle" /\ sub' = sub /\ handed' = handed)]_vars

\* C20: no exception raised for one subscription stops the scheduler: a sweep
\* that has another subscription ahead of the row goes on to the row whatever
\* happened to the other one, and after every new-posts sweep another one starts.
C20_SweepSurvivesExceptions ==
    /\ [][\A s \in Sweeps : pc[s] = "earlier" => pc'[s] \in {"earlier", "fetching"}]_vars
    /\ (pc["new"] = "idle") ~> (pc["new"] \in InSweep)

C22_DedupPerDestination ==
    [][RowEvent
       => \A p \in Range(Batch(Head(todo))) :
             (<<Destination(Head(todo)), p>> \in sent')]_vars

\* C23: after any sequence of subscribe and unsubscribe commands the store holds
\* at most one subscription row per (subreddit, channel, thread).
C23_OneRowPerDestination ==
    \A i, j \in 1..Len(rows) :
        /\ rows[i].subreddit = rows[j].subreddit
        /\ rows[i].channel_id = rows[j].channel_id
        /\ rows[i].thread_id = rows[j].thread_id
        => i = j

\* C24: a cleanup sweep deletes exactly the rows whose channel, or for a forum row
\* whose thread, no longer resolves: what is left is the rows that resolve, as
\* they were (cursor included) and in their order.
C24_CleanupDeletesExactlyStale ==
    [][CleanupEvent => rows' = SelectSeq(rows, Resolves)]_vars

\* two threads were opened by /subscribe_forum, the second was deleted, and the
\* sweep removed its row and kept the first
C24_Witness ==
    /\ now = 2
    /\ "thread 4" \in deleted
    /\ rows = <<Row("forum_subscriptions", "feed", "forum", "thread 3", 1)>>

\* C25: process_submission renders a post through the variant that comes first
\* in the order Poll, NativeVideo, EmbeddedVideo, ExternalVideo, Gallery,
\* SingleImage, TextPost, LinkPost among those its features qualify it for.
C25_FirstMatchPriority ==
    rendered = "done" /\ Content_of(submission).url # "redgifs" =>
        LET p == Content_of(submission)
            variant ==
                IF p.poll_data THEN {"poll"}
                ELSE IF p.video THEN {"native video"}
                ELSE IF p.media_metadata = "RedditVideo" /\ p.player_link THEN {"hosted video"}
                ELSE IF p.url = "youtube" THEN {"YouTube"}
                ELSE IF p.is_gallery THEN {"gallery"}
                ELSE IF p.url = "image" \/ p.media_metadata = "Image" THEN {"image"}
                ELSE IF p.is_self THEN {"self post"}
                ELSE {"gallery link", "link"}
        IN  messages[1].branch \in variant

\* C26: every post that loads is rendered by exactly one content branch, and the
\* branch depends on the features of the post alone: not on the visible buttons
\* and not on the post's identity.
C26_ExactlyOneBranch ==
    rendered = "done" =>
        /\ messages # <<>>
        /\ \A i \in 1..Len(messages) : messages[i].branch = messages[1].branch
        /\ \A visible \in SUBSET Buttons :
              process_submission(Standalone("other", Content_of(submission)), visible)[1].branch
                  = messages[1].branch

\* a poll with an image: the poll embed and the image, both sent by the poll branch
C26_Witness ==
    /\ rendered = "done"
    /\ Len(messages) = 2
    /\ messages[1].branch = "poll"
    /\ messages[2].kind = "files"

\* C27: a crosspost is rendered by the branch, and with the media and buttons, its
\* origin would be rendered with on its own, while the title, author, timestamp
\* and permalink of the embed are those of the crosspost.
C27_CrosspostContentFromOrigin ==
    rendered = "done" /\ submission.crosspost_parent_list # <<>> =>
        LET direct == process_submission(
                          Standalone("origin", submission.crosspost_parent_list[1]),
                          button_visibility)
        IN  /\ Len(messages) = Len(direct)
            /\ \A i \in 1..Len(messages) :
                  /\ messages[i].branch = direct[i].branch
                  /\ messages[i].kind = direct[i].kind
                  /\ messages[i].files = direct[i].files
                  /\ messages[i].view = direct[i].view
                  /\ messages[i].kind = "embed" =>
                        /\ messages[i].title = submission.title
                        /\ messages[i].author = submission.author
                        /\ messages[i].timestamp = submission.created_utc
                        /\ messages[i].url = submission.permalink

\* a crosspost of a gallery of two images: the embed of the crosspost, then the images
C27_Witness ==
    /\ rendered = "done"
    /\ submission.crosspost_parent_list # <<>>
    /\ Len(messages) = 2
    /\ messages[1].branch = "gallery"
    /\ messages[1].title = "crosspost"
    /\ messages[2].files = <<1, 2>>

\* C28: the primary message of a crosspost, whichever branch renders it, has a
\* crosspost field naming the origin's feed, and it is its last field.
C28_CrosspostFieldLast ==
    rendered = "done" /\ submission.crosspost_parent_list # <<>> =>
        LET fields == messages[1].fields
        IN  /\ fields # <<>>
            /\ fields[Len(fields)] =
                   Field("Crosspost", submission.crosspost_parent_list[1].subreddit)

\* C29: when the Reddit Post button is visible, exactly one message carries
\* buttons: the primary message when no attachment batch is sent, otherwise the
\* last attachment batch (a message with image files, a video file or the embed
\* of an oversized GIF).
C29_ButtonsOnOneUnit ==
    rendered = "done" /\ "Reddit Post" \in button_visibility =>
        LET carriers == {i \in 1..Len(messages) : messages[i].view # {}}
            batches == Units({"files", "file", "gif"})
        IN  /\ Cardinality(carriers) = 1
            /\ carriers = IF batches = {} THEN {1} ELSE {SetMax(batches)}

\* C30: for a gallery the embed is sent first, every attachment batch has 1 to 10
\* images, the batches hold the images that download, each once and in gallery
\* order, and 22 such images make 3 batches.
C30_GalleryBatches ==
    rendered = "done" /\ Content_of(submission).is_gallery
                      /\ messages[1].branch = "gallery" =>
        LET images == Content_of(submission).images
        IN  /\ Units({"embed"}) = {1}
            /\ \A i \in Units({"files"}) :
                  Len(messages[i].files) >= 1 /\ Len(messages[i].files) <= 10
            /\ Attached(messages) = SelectSeq(Indices(images), LAMBDA i : images[i] = "ok")
            /\ Len(images) = 22 /\ (\A i \in 1..22 : images[i] = "ok")
                  => Cardinality(Units({"files"})) = 3

\* a gallery of 22 images that all download: the embed and three batches
C30_Witness ==
    /\ rendered = "done"
    /\ Len(submission.images) = 22
    /\ Len(messages) = 4
    /\ Len(Attached(messages)) = 22
    /\ Len(messages[4].files) = 2

\* C31: every image of a gallery or self post that is kept out of the attachment
\* batches because it is above the byte ceiling is sent as an embed of its own.
C31_OversizedEmbedded ==
    rendered = "done" /\ messages[1].branch \in {"gallery", "self post"} =>
        LET images == Content_of(submission).images
        IN  \A i \in 1..Len(images) :
               images[i] \in {"oversized gif", "oversized"}
               => \E k \in Units({"gif"}) : messages[k].files = <<i>>

\* C32: a video that cannot be downloaded within MAX_VIDEO_SIZE is not uploaded:
\* the post is one message, its embed carrying a link field and the note that the
\* video has to be viewed on the site.
C32_OversizedVideoLinkAndNote ==
    LET p == Content_of(submission)
    IN  /\ rendered = "done"
        /\ p.video /\ ~p.download
        /\ messages[1].branch \in {"native video", "RedGIFs"}
        => /\ Len(messages) = 1
           /\ Units({"file"}) = {}
           /\ \E i \in 1..Len(messages[1].fields) :
                 messages[1].fields[i].name \in {"Reddit Video", "RedGIFs Link"}
           /\ \E i \in 1..Len(messages[1].fields) :
                 messages[1].fields[i].name = "Note"

\* C33: truncate_string returns the string unchanged when it is no longer than the
\* budget, and otherwise its first budget - 3 characters followed by "...": the
\* result is never longer than the budget, 256 for a title and 100 for a thread name.
C33_TruncateWithinBudget ==
    clip # "none" =>
        LET n == Budget(clip)
        IN  /\ n = (IF clip = "title" THEN 256 ELSE 100)
            /\ Len(title) <= n => clipped = title
            /\ Len(title) > n =>
                  /\ Len(clipped) = n
                  /\ \A i \in 1..(n - 3) : clipped[i] = title[i]
                  /\ \A i \in (n - 2)..n : clipped[i] = 0
            /\ Len(clipped) <= n

C33_Witness ==
    /\ clip = "title"
    /\ Len(title) > TitleLimit
    /\ Len(clipped) = TitleLimit
    /\ clipped[TitleLimit] = 0

\* C34: the end of the poll is timestamp / 1000 when the timestamp is above
\* 253402300799 and the timestamp otherwise. When the end is after the current time
\* the field shows the whole days, hours and minutes left, none of them negative;
\* otherwise it says that the poll has ended. A timestamp in milliseconds gives the
\* field that the same instant in seconds gives.
C34_PollRemainingTime ==
    poll_time.name \notin {"none", "sent"} =>
        LET ts == voting_end_timestamp
            millis == Above(ts, LastSecond)
            \* milliseconds from the current time to the end
            left == IF millis
                    THEN (ts.hi - current_time.seconds) * 1000
                         + ts.lo - current_time.millis
                    ELSE (ts.hi * 1000 + ts.lo - current_time.seconds) * 1000
                         - current_time.millis
            other == IF millis THEN InSeconds(ts.hi) ELSE InMillis(ts.hi * 1000 + ts.lo, 0)
        IN  /\ left > 0 =>
                 /\ poll_time.name = "Poll Ends"
                 /\ poll_time.days = left \div 86400000
                 /\ poll_time.hours = (left \div 3600000) % 24
                 /\ poll_time.minutes = (left \div 60000) % 60
            /\ left <= 0 => poll_time.name = "Poll Status"
            /\ poll_time.days >= 0 /\ poll_time.hours >= 0 /\ poll_time.minutes >= 0
            /\ millis /\ ts.lo = 0 => PollTime(other, current_time) = poll_time
            /\ ~millis => PollTime(other, current_time) = poll_time

C34_Witness ==
    /\ poll_time.name = "Poll Ends"
    /\ Above(voting_end_timestamp, LastSecond)
    /\ poll_time.days = 1 /\ poll_time.hours = 23 /\ poll_time.minutes = 59

\* C35: in the step in which a sweep takes a post out of its batch, before the
\* first await of the post's processing, the id of the post is in the dedup set of
\* the channel; the step in which the post is delivered does not add it.
C35_AddedBeforeFirstAwait ==
    [][\A s \in Sweeps : \A p \in Posts :
          /\ HandEvent(s, p) =>
                /\ channel_id \in DOMAIN processed_submissions'
                /\ p \in processed_submissions'[channel_id]
          /\ pc[s] = "rendering" /\ Current(s) = p /\ delivered'[p] # delivered[p]
             /\ channel_id \in DOMAIN processed_submissions' =>
                \/ p \notin processed_submissions'[channel_id]
                \/ /\ channel_id \in DOMAIN processed_submissions
                   /\ p \in processed_submissions[channel_id]]_vars

C35_Witness ==
    /\ pc["consistency"] = "rendering"
    /\ channel_id \in DOMAIN processed_submissions
    /\ Current("consistency") \in processed_submissions[channel_id]
    /\ delivered[Current("consistency")] = 0
    /\ sub.table = "individual_forum_subscriptions"

\* C36: a sweep that comes back from process_submission with posts of its batch
\* left finds the dedup set of the channel: no step ends a batch because the
\* lookup processed_submissions[channel_id] failed.
C36_DedupSetExists ==
    [][\A s \in Sweeps :
          pc[s] = "rendering" /\ pos[s] < Len(new_submissions[s]) /\ pc'[s] # pc[s]
          => channel_id \in DOMAIN processed_submissions]_vars

\* C37: once the unsubscribe command has deleted the row, no post of the subreddit
\* is delivered to the channel any more, not even by a sweep that read the row
\* before the command.
C37_NoDeliveryAfterUnsubscribe ==
    [][~subscribed => \A p \in Posts : delivered'[p] = delivered[p]]_vars

\* C38: every post a sweep hands on or delivers for a regular subscription was
\* created strictly after the subscription was: a post created at or before the
\* time of the subscribe command is never delivered, however the sweeps interleave.
C38_OnlyPostsAfterSubscribe ==
    \A p \in Posts :
        handed[p] # {} \/ delivered[p] > 0 => feed[p].created > SubscribeTime

C38_Witness ==
    /\ Len(feed) = 2
    /\ feed[1].created = SubscribeTime
    /\ delivered[1] = 0
    /\ delivered[2] = 2
    /\ sub.last_check > SubscribeTime

\* C39: overlapping subscribe_forum_create commands for one subreddit and forum
\* leave at most one row of forum_subscriptions for the pair, and at most one
\* thread they created is there.
C39_OneRowOneThread ==
    \A subreddit \in Feeds : \A forum \in Forums :
        /\ Len(Existing(rows, "forum_subscriptions", subreddit, forum)) <= 1
        /\ Cardinality(NewThreads \cap channels) <= 1

\* C40: in both sample bots check_new_posts sends the new posts of a feed oldest
\* first: no post is sent after a newer post of the feed was.
C40_SampleOldestFirst ==
    [][\A p \in Posts :
          SampleHandEvent(p)
          => \A q \in Posts : feed[q].created > feed[p].created => handed[q] = {}]_vars

====
